---------------------------- MODULE Spec2Model ----------------------------
(***************************************************************************)
(* A model of the citation core (CitationProcessor: citations and         *)
(* bibliography) and of the page-layout core (FormatOptimizer: geometry,   *)
(* line breaking, pagination) of src/src/utils/python/ai-formatter.py.     *)
(* and of Edison.format_document and Document.copy of src/backup/app.      *)
(*                                                                         *)
(* Texts are TLA+ strings, read character by character with SubSeq.  The   *)
(* regular expressions of the source are kept as syntax trees and matched  *)
(* by a backtracking matcher that yields its results in the priority order *)
(* of Python's re module (greedy quantifiers first).                       *)
(*                                                                         *)
(* Lengths are fixed-point numbers: an integer n stands for n / Scale      *)
(* points (or inches, millimetres, pixels for an argument in that unit).   *)
(***************************************************************************)
EXTENDS Integers, Sequences, FiniteSets, TLC

(***************************************************************************)
(* Characters and strings                                                  *)
(***************************************************************************)
Upper == {"A","B","C","D","E","F","G","H","I","J","K","L","M",
          "N","O","P","Q","R","S","T","U","V","W","X","Y","Z"}
Lower == {"a","b","c","d","e","f","g","h","i","j","k","l","m",
          "n","o","p","q","r","s","t","u","v","w","x","y","z"}
Digit == {"0","1","2","3","4","5","6","7","8","9"}
Space == {" ", "\n", "\t"}

Char(s, i) == SubSeq(s, i, i)

\* Python's None (no text a pattern captures contains "<")
None == "<None>"

(***************************************************************************)
(* Regular expressions: syntax trees                                       *)
(***************************************************************************)
RSet(cs)    == [t |-> "set", cs |-> cs]              \* one character of cs
RNot(cs)    == [t |-> "not", cs |-> cs]              \* one character not in cs
RCat(rs)    == [t |-> "cat", rs |-> rs]              \* r1 r2 ... rn
RStar(r)    == [t |-> "rep", r |-> r, min |-> 0]     \* r*  (greedy)
RPlus(r)    == [t |-> "rep", r |-> r, min |-> 1]     \* r+  (greedy)
ROpt(r)     == [t |-> "opt", r |-> r]                \* r?  (greedy)
RGrp(n, r)  == [t |-> "grp", n |-> n, r |-> r]       \* n-th capturing group
RNlb(cs)    == [t |-> "nlb", cs |-> cs]              \* (?<![cs])
RLit(str)   == RCat([i \in 1..Len(str) |-> RSet({Char(str, i)})])
RTimes(r, n) == RCat([i \in 1..n |-> r])             \* r{n}
RAlt(rs)    == [t |-> "alt", rs |-> rs]              \* r1|r2|...|rn
RLazy(r)    == [t |-> "lazy", r |-> r]               \* r*?  (lazy), r one character
RLook(r)    == [t |-> "look", r |-> r]               \* (?=r)
RBol        == [t |-> "bol"]                         \* ^ without re.MULTILINE
REol        == [t |-> "eol"]                         \* $ without re.MULTILINE
RAny        == RNot({})                              \* . under re.DOTALL

\* the largest number of capturing groups of a pattern of the catalog
NGroups == 3

NoCaps == [g \in 1..NGroups |-> <<0, 0>>]

(***************************************************************************)
(* The matcher.  MatchRe(r, s, i, caps) is the sequence of the ways r can  *)
(* match s from index i (1-based), each [e |-> index after the match,      *)
(* c |-> capture spans], most preferred first.                             *)
(***************************************************************************)
RECURSIVE MatchRe(_, _, _, _)
RECURSIVE MatchSeq(_, _, _, _, _)
RECURSIVE ContSeq(_, _, _, _, _)
RECURSIVE MatchRep(_, _, _, _, _)
RECURSIVE ContRep(_, _, _, _, _, _)
RECURSIVE MatchAlt(_, _, _, _, _)

\* whether the one-character pattern r accepts the character ch
Accepts(r, ch) == IF r.t = "set" THEN ch \in r.cs ELSE ch \notin r.cs

\* The lazy star of a one-character pattern prefers the fewest repetitions:
\* 0, 1, ... up to the longest run of accepted characters from index i.
MatchLazy(r, s, i, caps) ==
    LET runs == { k \in 0..(Len(s) + 1 - i) :
                    \A q \in i..(i + k - 1) : Accepts(r, Char(s, q)) }
    IN [j \in 1..Cardinality(runs) |-> [e |-> i + j - 1, c |-> caps]]

SetGroup(res, n, i) ==
    [j \in 1..Len(res) |->
        [e |-> res[j].e, c |-> [res[j].c EXCEPT ![n] = <<i, res[j].e>>]]]

MatchRe(r, s, i, caps) ==
    CASE r.t = "set" -> IF i <= Len(s) /\ Char(s, i) \in r.cs
                        THEN << [e |-> i + 1, c |-> caps] >> ELSE << >>
      [] r.t = "not" -> IF i <= Len(s) /\ Char(s, i) \notin r.cs
                        THEN << [e |-> i + 1, c |-> caps] >> ELSE << >>
      [] r.t = "cat" -> MatchSeq(r.rs, 1, s, i, caps)
      [] r.t = "rep" -> MatchRep(r.r, r.min, s, i, caps)
      [] r.t = "opt" -> MatchRe(r.r, s, i, caps) \o << [e |-> i, c |-> caps] >>
      [] r.t = "grp" -> SetGroup(MatchRe(r.r, s, i, caps), r.n, i)
      [] r.t = "nlb" -> IF i > 1 /\ Char(s, i - 1) \in r.cs
                        THEN << >> ELSE << [e |-> i, c |-> caps] >>
      [] r.t = "alt" -> MatchAlt(r.rs, 1, s, i, caps)
      [] r.t = "lazy" -> MatchLazy(r.r, s, i, caps)
      [] r.t = "look" -> IF MatchRe(r.r, s, i, caps) = << >>
                         THEN << >> ELSE << [e |-> i, c |-> caps] >>
      [] r.t = "bol" -> IF i = 1 THEN << [e |-> i, c |-> caps] >> ELSE << >>
      [] r.t = "eol" -> IF i = Len(s) + 1 \/ (i = Len(s) /\ Char(s, i) = "\n")
                        THEN << [e |-> i, c |-> caps] >> ELSE << >>

MatchSeq(rs, k, s, i, caps) ==
    IF k > Len(rs) THEN << [e |-> i, c |-> caps] >>
    ELSE ContSeq(MatchRe(rs[k], s, i, caps), 1, rs, k + 1, s)

ContSeq(res, j, rs, k, s) ==
    IF j > Len(res) THEN << >>
    ELSE MatchSeq(rs, k, s, res[j].e, res[j].c) \o ContSeq(res, j + 1, rs, k, s)

MatchRep(r, min, s, i, caps) ==
    ContRep(MatchRe(r, s, i, caps), 1, r, min, s, i)
      \o (IF min = 0 THEN << [e |-> i, c |-> caps] >> ELSE << >>)

ContRep(res, j, r, min, s, i) ==
    IF j > Len(res) THEN << >>
    ELSE (IF res[j].e > i
          THEN MatchRep(r, IF min > 0 THEN min - 1 ELSE 0, s, res[j].e, res[j].c)
          ELSE << >>)
         \o ContRep(res, j + 1, r, min, s, i)

MatchAlt(rs, k, s, i, caps) ==
    IF k > Len(rs) THEN << >>
    ELSE MatchRe(rs[k], s, i, caps) \o MatchAlt(rs, k + 1, s, i, caps)

\* match.group(g): the text of the g-th group
GroupText(s, span) == SubSeq(s, span[1], span[2] - 1)

\* A match object: 0-based start and end as in Python, the matched text, the groups.
MatchObj(s, i, res, ngroups) ==
    [start  |-> i - 1,
     end    |-> res.e - 1,
     text   |-> SubSeq(s, i, res.e - 1),
     groups |-> [g \in 1..ngroups |-> GroupText(s, res.c[g])]]

\* re.finditer(pattern, s): the non-overlapping matches, scanning left to right
RECURSIVE FindIterFrom(_, _, _, _)
FindIterFrom(r, ngroups, s, i) ==
    IF i > Len(s) + 1 THEN << >>
    ELSE LET res == MatchRe(r, s, i, NoCaps) IN
         IF res = << >> THEN FindIterFrom(r, ngroups, s, i + 1)
         ELSE << MatchObj(s, i, res[1], ngroups) >>
              \o FindIterFrom(r, ngroups, s, IF res[1].e > i THEN res[1].e ELSE i + 1)

FindIter(r, ngroups, s) == FindIterFrom(r, ngroups, s, 1)

\* re.search(pattern, s): << >> for None, or << the first match >>
RECURSIVE SearchFrom(_, _, _, _)
SearchFrom(r, ngroups, s, i) ==
    IF i > Len(s) + 1 THEN << >>
    ELSE LET res == MatchRe(r, s, i, NoCaps) IN
         IF res = << >> THEN SearchFrom(r, ngroups, s, i + 1)
         ELSE << MatchObj(s, i, res[1], ngroups) >>

Search(r, ngroups, s) == SearchFrom(r, ngroups, s, 1)

\* re.match(pattern, s): a match at the start of s only
Match(r, ngroups, s) ==
    LET res == MatchRe(r, s, 1, NoCaps) IN
    IF res = << >> THEN << >> ELSE << MatchObj(s, 1, res[1], ngroups) >>

\* re.split(pattern, s) for a pattern without groups: the pieces between the
\* non-empty matches
RECURSIVE SplitRe(_, _, _, _)
SplitRe(r, s, from, i) ==
    IF i > Len(s) THEN << SubSeq(s, from, Len(s)) >>
    ELSE LET res == MatchRe(r, s, i, NoCaps) IN
         IF res # << >> /\ res[1].e > i
         THEN << SubSeq(s, from, i - 1) >> \o SplitRe(r, s, res[1].e, res[1].e)
         ELSE SplitRe(r, s, from, i + 1)

\* str.strip(chars): s without the leading and trailing characters of chars
RECURSIVE LStrip(_, _)
LStrip(s, chars) ==
    IF s # "" /\ Char(s, 1) \in chars THEN LStrip(SubSeq(s, 2, Len(s)), chars) ELSE s

RECURSIVE RStrip(_, _)
RStrip(s, chars) ==
    IF s # "" /\ Char(s, Len(s)) \in chars THEN RStrip(SubSeq(s, 1, Len(s) - 1), chars) ELSE s

Strip(s, chars) == RStrip(LStrip(s, chars), chars)

(***************************************************************************)
(* CitationProcessor.citation_patterns                                     *)
(***************************************************************************)
\* [A-Z][a-z]+(?:[-\s][A-Z][a-z]+)*
NameRe ==
    RCat(<< RSet(Upper), RPlus(RSet(Lower)),
            RStar(RCat(<< RSet({"-"} \cup Space), RSet(Upper), RPlus(RSet(Lower)) >>)) >>)

\* (?:\s+and\s+[A-Z][a-z]+)?(?:\s+et\s+al\.?)?
CoAuthorsRe ==
    RCat(<< ROpt(RCat(<< RPlus(RSet(Space)), RLit("and"), RPlus(RSet(Space)),
                         RSet(Upper), RPlus(RSet(Lower)) >>)),
            ROpt(RCat(<< RPlus(RSet(Space)), RLit("et"), RPlus(RSet(Space)),
                         RLit("al"), ROpt(RSet({"."})) >>)) >>)

\* \d+(?:-\d+)?
PageRangeRe == RCat(<< RPlus(RSet(Digit)), ROpt(RCat(<< RLit("-"), RPlus(RSet(Digit)) >>)) >>)

\* (\d+)(?:-\d+)?
PageGroupRe(n) ==
    RCat(<< RGrp(n, RPlus(RSet(Digit))), ROpt(RCat(<< RLit("-"), RPlus(RSet(Digit)) >>)) >>)

\* (\d{4})
YearGroupRe(n) == RGrp(n, RTimes(RSet(Digit), 4))

\* \(NAME...\s+(\d+)(?:-\d+)?\)
MlaRe ==
    RCat(<< RLit("("), RGrp(1, NameRe), CoAuthorsRe, RPlus(RSet(Space)),
            PageGroupRe(2), RLit(")") >>)

\* NAME...\s+\((\d{4})(?:,\s+p\.?\s+\d+(?:-\d+)?)?\)
ApaInTextRe ==
    RCat(<< RGrp(1, NameRe), CoAuthorsRe, RPlus(RSet(Space)), RLit("("), YearGroupRe(2),
            ROpt(RCat(<< RLit(","), RPlus(RSet(Space)), RLit("p"), ROpt(RSet({"."})),
                         RPlus(RSet(Space)), PageRangeRe >>)),
            RLit(")") >>)

\* \(NAME...,\s+(\d{4})(?:,\s+p\.?\s+\d+(?:-\d+)?)?\)
ApaParentheticalRe ==
    RCat(<< RLit("("), RGrp(1, NameRe), CoAuthorsRe, RLit(","), RPlus(RSet(Space)),
            YearGroupRe(2),
            ROpt(RCat(<< RLit(","), RPlus(RSet(Space)), RLit("p"), ROpt(RSet({"."})),
                         RPlus(RSet(Space)), PageRangeRe >>)),
            RLit(")") >>)

\* NAME...\s+\((\d{4})(?:,\s+\d+(?:-\d+)?)?\)
ChicagoInTextRe ==
    RCat(<< RGrp(1, NameRe), CoAuthorsRe, RPlus(RSet(Space)), RLit("("), YearGroupRe(2),
            ROpt(RCat(<< RLit(","), RPlus(RSet(Space)), PageRangeRe >>)),
            RLit(")") >>)

\* (?<!\d)(\d+)\.?\s+(NAME),\s+[^,]+,\s+(\d+)(?:-\d+)?
ChicagoFootnoteRe ==
    RCat(<< RNlb(Digit), RGrp(1, RPlus(RSet(Digit))), ROpt(RSet({"."})), RPlus(RSet(Space)),
            RGrp(2, NameRe), RLit(","), RPlus(RSet(Space)), RPlus(RNot({","})),
            RLit(","), RPlus(RSet(Space)), PageGroupRe(3) >>)

\* the styles in the insertion order of the dict, and each style's kinds in order
StyleOrder == << "mla", "apa", "chicago" >>
Styles == {"mla", "apa", "chicago"}

\* patterns in which the two MLA kinds differ
citation_patternsDistinctMla ==
    [mla     |-> << [type |-> "in_text",       re |-> MlaRe,              n |-> 2],
                    [type |-> "parenthetical", re |-> ApaParentheticalRe, n |-> 2] >>,
     apa     |-> << [type |-> "in_text",       re |-> ApaInTextRe,        n |-> 2],
                    [type |-> "parenthetical", re |-> ApaParentheticalRe, n |-> 2] >>,
     chicago |-> << [type |-> "in_text",       re |-> ChicagoInTextRe,    n |-> 2],
                    [type |-> "footnote",      re |-> ChicagoFootnoteRe,  n |-> 3] >>]

citation_patterns ==
    [mla     |-> << [type |-> "in_text",       re |-> MlaRe,              n |-> 2],
                    [type |-> "parenthetical", re |-> MlaRe,              n |-> 2] >>,
     apa     |-> << [type |-> "in_text",       re |-> ApaInTextRe,        n |-> 2],
                    [type |-> "parenthetical", re |-> ApaParentheticalRe, n |-> 2] >>,
     chicago |-> << [type |-> "in_text",       re |-> ChicagoInTextRe,    n |-> 2],
                    [type |-> "footnote",      re |-> ChicagoFootnoteRe,  n |-> 3] >>]

(***************************************************************************)
(* Inputs of the citation core.  nltk's sent_tokenize is a collaborator:   *)
(* a text is given already split, as the sequence of its sentences, and    *)
(* the original text is these sentences joined by one space.               *)
(***************************************************************************)
SampleSentences ==
    { "As shown (Smith 45).",
      "See (Smith, 2020) and Jones (2019).",
      "Lee (2020, p. 45) agrees.",
      "Kim (2020, 45) agrees.",
      "1. Smith, History, 45.",
      "Also (Lee, 2021).",
      "No citation here." }

MaxSentences == 2

Texts == UNION { [1..n -> SampleSentences] : n \in 0..MaxSentences }

\* the offset of the k-th sentence in the original text
RECURSIVE SentenceOffset(_, _)
SentenceOffset(txt, k) ==
    IF k = 1 THEN 0 ELSE SentenceOffset(txt, k - 1) + Len(txt[k - 1]) + 1

StyleArgs == Styles \cup {"harvard"}

RECURSIVE Flatten(_)
Flatten(ss) == IF ss = << >> THEN << >> ELSE Head(ss) \o Flatten(Tail(ss))

RECURSIVE SumSeq(_)
SumSeq(ns) == IF ns = << >> THEN 0 ELSE Head(ns) + SumSeq(Tail(ns))

\* re.finditer for each sentence of the catalog and each pattern, computed once
finditer ==
    [style \in Styles |->
        [j \in 1..2 |->
            [s \in SampleSentences |->
                FindIter(citation_patterns[style][j].re, citation_patterns[style][j].n, s)]]]

(***************************************************************************)
(* CitationProcessor.extract_citations                                     *)
(***************************************************************************)
\* The citation dicts appended to citations[style], in the order of the loops:
\* for sentence / for type_name, pattern / for match.  "position" is the offset
\* of the match in the original text; the source does not store it, it is kept
\* beside the record to state the ordering.
Appended(txt, style) ==
    Flatten([k \in 1..Len(txt) |->
        Flatten([j \in 1..Len(citation_patterns[style]) |->
            LET ms == finditer[style][j][txt[k]] IN
            [m \in 1..Len(ms) |->
                [citation |-> [text     |-> ms[m].text,
                               type     |-> citation_patterns[style][j].type,
                               sentence |-> txt[k],
                               groups   |-> ms[m].groups],
                 position |-> SentenceOffset(txt, k) + ms[m].start]]])])

\* a count of the sentences that hold a match, not of the matches
CountSentences(txt, style) ==
    SumSeq([k \in 1..Len(txt) |->
        IF \E j \in 1..Len(citation_patterns[style]) : finditer[style][j][txt[k]] # << >>
        THEN 1 ELSE 0])

\* style_counts[style] += 1, once per match
CountMatches(txt, style) ==
    SumSeq([k \in 1..Len(txt) |->
        SumSeq([j \in 1..Len(citation_patterns[style]) |->
            Len(finditer[style][j][txt[k]])])])

\* max(style_counts, key=style_counts.get): the first key, in the dict's order,
\* with the largest count
RECURSIVE MaxKeyFrom(_, _, _)
MaxKeyFrom(counts, k, best) ==
    IF k > Len(StyleOrder) THEN best
    ELSE MaxKeyFrom(counts, k + 1,
                    IF counts[StyleOrder[k]] > counts[best] THEN StyleOrder[k] ELSE best)

MaxKey(counts) == MaxKeyFrom(counts, 2, StyleOrder[1])

\* a max that lets a later key replace an equal earlier one
RECURSIVE MaxKeyLastFrom(_, _, _)
MaxKeyLastFrom(counts, k, best) ==
    IF k > Len(StyleOrder) THEN best
    ELSE MaxKeyLastFrom(counts, k + 1,
                        IF counts[StyleOrder[k]] >= counts[best] THEN StyleOrder[k] ELSE best)

DominantStyleLastMax(counts) ==
    LET dominant_style == MaxKeyLastFrom(counts, 2, StyleOrder[1]) IN
    IF counts[dominant_style] = 0 THEN None ELSE dominant_style

DominantStyle(counts) ==
    LET dominant_style == MaxKey(counts) IN
    IF counts[dominant_style] = 0 THEN None ELSE dominant_style

extract_citations(txt) ==
    LET style_counts == [style \in Styles |-> CountMatches(txt, style)]
        hits         == [style \in Styles |-> Appended(txt, style)]
    IN [dominant_style |-> DominantStyle(style_counts),
        citations      |-> [style \in Styles |->
                               [m \in 1..Len(hits[style]) |-> hits[style][m].citation]],
        style_counts   |-> style_counts,
        positions      |-> [style \in Styles |->
                               [m \in 1..Len(hits[style]) |-> hits[style][m].position]]]

(***************************************************************************)
(* CitationProcessor.convert_citation                                      *)
(***************************************************************************)
\* a local variable that no branch has assigned
Unbound == "<unbound>"

\* p\.?\s+(\d+(?:-\d+)?)
ApaPageRe ==
    RCat(<< RLit("p"), ROpt(RSet({"."})), RPlus(RSet(Space)), RGrp(1, PageRangeRe) >>)

\* (\d+(?:-\d+)?)
FirstNumberRe == RGrp(1, PageRangeRe)

\* page_match.group(1) if page_match else None
PageFrom(re, str) ==
    LET page_match == FindIter(re, 1, str) IN
    IF page_match = << >> THEN None ELSE page_match[1].groups[1]

\* The branches of the first if/elif chain: the locals author, year, page each
\* assigns, or the exception it raises.
FromMla(citation) ==
    [raised |-> None, author |-> citation.groups[1], year |-> "n.d.",
     page |-> citation.groups[2]]

FromApa(citation) ==
    [raised |-> None, author |-> citation.groups[1], year |-> citation.groups[2],
     page |-> PageFrom(ApaPageRe, citation.text)]

FromChicago(citation) ==
    IF citation.type = "in_text"
    THEN [raised |-> None, author |-> citation.groups[1], year |-> citation.groups[2],
          page |-> PageFrom(FirstNumberRe, citation.text)]
    ELSE IF Len(citation.groups) < 3    \* citation['groups'][2]
         THEN [raised |-> "IndexError", author |-> citation.groups[2],
               year |-> Unbound, page |-> Unbound]
         ELSE [raised |-> None, author |-> citation.groups[2], year |-> "n.d.",
               page |-> citation.groups[3]]

\* no branch taken: nothing is assigned
FromOther == [raised |-> None, author |-> Unbound, year |-> Unbound, page |-> Unbound]

\* an MLA branch that forgets the page it captured
ExtractFieldsMlaPageLost(citation, from_style) ==
    CASE from_style = "mla"     -> [FromMla(citation) EXCEPT !.page = None]
      [] from_style = "apa"     -> FromApa(citation)
      [] from_style = "chicago" -> FromChicago(citation)
      [] OTHER                  -> FromOther

\* The first half of convert_citation: the if/elif chain on from_style.
ExtractFields(citation, from_style) ==
    CASE from_style = "mla"     -> FromMla(citation)
      [] from_style = "apa"     -> FromApa(citation)
      [] from_style = "chicago" -> FromChicago(citation)
      [] OTHER                  -> FromOther

Return(str) == [outcome |-> "return", value |-> str]
Raise(err)  == [outcome |-> "raise",  value |-> err]

\* Python's truth value of page: None and the empty string are false
Truthy(page) == page # None /\ page # ""

\* The branches of the second if/elif chain.  Reading a local that was never
\* assigned raises UnboundLocalError; "if page" is the first read.
ToMla(f) ==
    IF f.page = Unbound THEN Raise("UnboundLocalError")
    ELSE IF Truthy(f.page)
         THEN Return("(" \o f.author \o " " \o f.page \o ")")
         ELSE Return("(" \o f.author \o ")")

ToApa(f) ==
    IF f.page = Unbound THEN Raise("UnboundLocalError")
    ELSE IF Truthy(f.page)
         THEN Return("(" \o f.author \o ", " \o f.year \o ", p. " \o f.page \o ")")
         ELSE Return("(" \o f.author \o ", " \o f.year \o ")")

\* a Chicago branch that writes the in-text form for every kind of citation
ToChicagoAlwaysInText(citation, f) ==
    IF f.page = Unbound THEN Raise("UnboundLocalError")
    ELSE IF Truthy(f.page)
         THEN Return(f.author \o " (" \o f.year \o ", " \o f.page \o ")")
         ELSE Return(f.author \o " (" \o f.year \o ")")

ToChicago(citation, f) ==
    IF citation.type = "in_text"
    THEN IF f.page = Unbound THEN Raise("UnboundLocalError")
         ELSE IF Truthy(f.page)
              THEN Return(f.author \o " (" \o f.year \o ", " \o f.page \o ")")
              ELSE Return(f.author \o " (" \o f.year \o ")")
    ELSE Return("[Citation converted to Chicago footnote]")

\* an APA branch that writes the page without its "p." label
RenderApaBarePage(citation, f, to_style) ==
    CASE to_style = "mla"     -> ToMla(f)
      [] to_style = "apa"     ->
           IF f.page = Unbound THEN Raise("UnboundLocalError")
           ELSE IF Truthy(f.page)
                THEN Return("(" \o f.author \o ", " \o f.year \o ", " \o f.page \o ")")
                ELSE Return("(" \o f.author \o ", " \o f.year \o ")")
      [] to_style = "chicago" -> ToChicago(citation, f)
      [] OTHER                -> Return(citation.text)

\* The second half: the if/elif chain on to_style and the fallback return.
Render(citation, f, to_style) ==
    CASE to_style = "mla"     -> ToMla(f)
      [] to_style = "apa"     -> ToApa(f)
      [] to_style = "chicago" -> ToChicago(citation, f)
      [] OTHER                -> Return(citation.text)

convert_citation(citation, from_style, to_style) ==
    LET f == ExtractFields(citation, from_style) IN
    IF f.raised # None THEN Raise(f.raised) ELSE Render(citation, f, to_style)

(***************************************************************************)
(* FormatOptimizer.  A length is an integer number of 1/Scale units: the   *)
(* floats of the source are kept to three decimals, and a quotient that    *)
(* has more is cut there.                                                  *)
(***************************************************************************)
Scale == 1000

LETTER_WIDTH  == 612 * Scale
LETTER_HEIGHT == 792 * Scale

INCH_TO_POINT == 72
\* MM_TO_POINT = 2.83465 and POINT_TO_PIXEL = 1.33333, times 10^5
MM_TO_POINT_E5    == 283465
POINT_TO_PIXEL_E5 == 133333
E5 == 100000

default_font_size   == 12
default_line_height == default_font_size * 2

\* avg_char_width = default_font_size * 0.6
avg_char_width == (default_font_size * 6 * Scale) \div 10

\* floor(a * b / c) for a >= 0, computed in two halves to stay within 32 bits
MulDiv(a, b, c) ==
    LET hi == a \div 1000
        lo == a % 1000
    IN ((hi * b) \div c) * 1000 + (((hi * b) % c) * 1000 + lo * b) \div c

\* Python's int(a / b) for b > 0: the quotient cut towards zero
IntDiv(a, b) == IF a >= 0 THEN a \div b ELSE -((-a) \div b)

Units == {"point", "inch", "mm", "pixel"}
Sides == {"top", "right", "bottom", "left"}

\* set_page_size's if/elif chain: a unit that no branch names leaves the value as it is
PageToPoints(val, unit) ==
    CASE unit = "inch"  -> val * INCH_TO_POINT
      [] unit = "mm"    -> MulDiv(val, MM_TO_POINT_E5, E5)
      [] unit = "pixel" -> MulDiv(val, E5, POINT_TO_PIXEL_E5)
      [] OTHER          -> val

\* a convert that multiplies by POINT_TO_PIXEL where the source divides
convertPixelMultiplies(val, unit) ==
    CASE unit = "inch"  -> val * INCH_TO_POINT
      [] unit = "mm"    -> MulDiv(val, MM_TO_POINT_E5, E5)
      [] unit = "pixel" -> MulDiv(val, POINT_TO_PIXEL_E5, E5)
      [] unit = "point" -> val

\* set_margins's convert lambda: the dict of the four units, indexed by unit;
\* the caller has checked that unit is a key
convert(val, unit) ==
    CASE unit = "inch"  -> val * INCH_TO_POINT
      [] unit = "mm"    -> MulDiv(val, MM_TO_POINT_E5, E5)
      [] unit = "pixel" -> MulDiv(val, E5, POINT_TO_PIXEL_E5)
      [] unit = "point" -> val

\* _calculate_content_area: the four derived attributes for a page and margins
ContentArea(pw, ph, m) ==
    LET cw == pw - (m.left + m.right)
        ch == ph - (m.top + m.bottom)
    IN [content_width  |-> cw,
        content_height |-> ch,
        chars_per_line |-> IntDiv(cw, avg_char_width),
        lines_per_page |-> IntDiv(ch, default_line_height * Scale)]

\* the whole margin space given to each side, not its half
OptimalMarginNotHalved(pw, target_line_length) ==
    pw - target_line_length * avg_char_width

\* the x that solves page_width - 2*x = target_line_length * avg_char_width
OptimalMargin(pw, target_line_length) ==
    (pw - target_line_length * avg_char_width) \div 2

\* An optional argument: << >> is None, << v >> is the value v
NoArg == << >>
Given(arg) == arg # << >>

(***************************************************************************)
(* FormatOptimizer: line breaking, pagination and heading placement        *)
(***************************************************************************)
\* str.split(): the maximal runs of characters that are not whitespace
RECURSIVE SplitFrom(_, _, _)
SplitFrom(s, i, word) ==
    IF i > Len(s) THEN (IF word = "" THEN << >> ELSE << word >>)
    ELSE IF Char(s, i) \in Space
         THEN (IF word = "" THEN << >> ELSE << word >>) \o SplitFrom(s, i + 1, "")
         ELSE SplitFrom(s, i + 1, word \o Char(s, i))

Split(s) == SplitFrom(s, 1, "")

\* sep.join(words)
RECURSIVE JoinWith(_, _)
JoinWith(words, sep) ==
    IF words = << >> THEN ""
    ELSE IF Len(words) = 1 THEN words[1]
    ELSE words[1] \o sep \o JoinWith(Tail(words), sep)

\* a join that puts nothing between the words
JoinNoSpace(words) == JoinWith(words, "")

\* ' '.join(words)
Join(words) == JoinWith(words, " ")

\* a test that sends the word which exactly fills the line to the next line
exceedsAtLimit(current_length, word, cpl) ==
    current_length + Len(word) + (IF current_length > 0 THEN 1 ELSE 0) >= cpl

\* current_length + len(word) + (1 if current_length > 0 else 0) > chars_per_line
exceeds(current_length, word, cpl) ==
    current_length + Len(word) + (IF current_length > 0 THEN 1 ELSE 0) > cpl

\* the loop over the words, from the k-th word on, and the append after it; the
\* line that is closed is appended whether or not it holds a word
RECURSIVE BreakFrom(_, _, _, _, _, _)
BreakFrom(words, k, cpl, lines, current_line, current_length) ==
    IF k > Len(words)
    THEN (IF current_line # << >> THEN Append(lines, Join(current_line)) ELSE lines)
    ELSE LET word == words[k] IN
         IF exceeds(current_length, word, cpl)
         THEN BreakFrom(words, k + 1, cpl, Append(lines, Join(current_line)),
                        << word >>, Len(word))
         ELSE BreakFrom(words, k + 1, cpl, lines, Append(current_line, word),
                        current_length + Len(word)
                          + (IF current_length > 0 THEN 1 ELSE 0))

\* the local chars_per_line of calculate_line_breaks:
\* int(self.content_width / (font_size * 0.6)), font_size None meaning the default
LineCapacity(font_size, cw) ==
    LET fs == IF Given(font_size) THEN font_size[1] ELSE default_font_size
    IN IntDiv(cw, (fs * 6 * Scale) \div 10)

calculate_line_breaks(txt, font_size, cw) ==
    BreakFrom(Split(txt), 1, LineCapacity(font_size, cw), << >>, << >>, 0)

\* a pagination that drops the page that is only partly filled
calculate_pagination_floor(line_count, lpp) ==
    IF lpp = 0 THEN Raise("ZeroDivisionError")
    ELSE Return(line_count \div lpp)

\* int(np.ceil(line_count / self.lines_per_page)), for lines_per_page >= 0
calculate_pagination(line_count, lpp) ==
    IF lpp = 0 THEN Raise("ZeroDivisionError")
    ELSE Return((line_count + lpp - 1) \div lpp)

\* a test that also moves the heading three lines after a break
near_break_inclusive(heading_pos, break_pos) ==
    0 < heading_pos - break_pos /\ heading_pos - break_pos <= 3

\* 0 < heading_pos - break_pos < 3
near_break(heading_pos, break_pos) ==
    0 < heading_pos - break_pos /\ heading_pos - break_pos < 3

\* the body of the loop over the headings: the first break of page_breaks the
\* heading is near moves it to the line before that break
PlaceHeading(pos, page_breaks, lpp) ==
    LET hits == { j \in 1..Len(page_breaks) : near_break(pos, page_breaks[j]) } IN
    IF hits = {} THEN [position |-> pos, page |-> (pos \div lpp) + 1]
    ELSE LET first == CHOOSE j \in hits : \A h \in hits : j <= h
             heading_pos == page_breaks[first] - 1
         IN [position |-> heading_pos, page |-> (heading_pos \div lpp) + 1]

optimize_heading_placement(headings_positions, text_length, lpp) ==
    LET pages == calculate_pagination(text_length, lpp) IN
    IF pages.outcome = "raise" THEN pages
    ELSE LET page_breaks == [i \in 1..(pages.value - 1) |-> i * lpp] IN
         Return([k \in 1..Len(headings_positions) |->
                    PlaceHeading(headings_positions[k], page_breaks, lpp)])

(***************************************************************************)
(* CitationProcessor.format_bibliography_entry                             *)
(***************************************************************************)
\* A bibliography entry is a dict: a function from the keys it holds to strings.
\* entry.get(key, default)
Get(entry, key, default) == IF key \in DOMAIN entry THEN entry[key] ELSE default

\* a test of the keys that asks for url before journal
EntryKindUrlFirst(entry) ==
    IF "url" \in DOMAIN entry THEN "url"
    ELSE IF "journal" \in DOMAIN entry THEN "journal"
    ELSE "book"

\* if 'journal' in entry ... elif 'url' in entry ... else
EntryKind(entry) ==
    IF "journal" \in DOMAIN entry THEN "journal"
    ELSE IF "url" \in DOMAIN entry THEN "url"
    ELSE "book"

format_bibliography_entry(entry, style) ==
    LET author    == Get(entry, "author", "Unknown Author")
        title     == Get(entry, "title", "Untitled")
        year      == Get(entry, "year", "n.d.")
        publisher == Get(entry, "publisher", "")
        location  == Get(entry, "location", "")
        journal   == Get(entry, "journal", "")
        volume    == Get(entry, "volume", "")
        issue     == Get(entry, "issue", "")
        pages     == Get(entry, "pages", "")
        url       == Get(entry, "url", "")
        kind      == EntryKind(entry)
    IN
    IF style = "mla" THEN
        IF kind = "journal"
        THEN Return(author \o ". \"" \o title \o ".\" " \o journal \o ", vol. " \o volume
                      \o ", no. " \o issue \o ", " \o year \o ", pp. " \o pages \o ".")
        ELSE IF kind = "url"
        THEN Return(author \o ". \"" \o title \o ".\" " \o publisher \o ", " \o year
                      \o ", " \o url \o ".")
        ELSE Return(author \o ". " \o title \o ". " \o location \o ": " \o publisher
                      \o ", " \o year \o ".")
    ELSE IF style = "apa" THEN
        IF kind = "journal"
        THEN Return(author \o ". (" \o year \o "). " \o title \o ". " \o journal \o ", "
                      \o volume \o "(" \o issue \o "), " \o pages \o ".")
        ELSE IF kind = "url"
        THEN Return(author \o ". (" \o year \o "). " \o title \o ". " \o publisher
                      \o ". " \o url)
        ELSE Return(author \o ". (" \o year \o "). " \o title \o ". " \o publisher \o ".")
    ELSE IF style = "chicago" THEN
        IF kind = "journal"
        THEN Return(author \o ". \"" \o title \o ".\" " \o journal \o " " \o volume
                      \o ", no. " \o issue \o " (" \o year \o "): " \o pages \o ".")
        ELSE IF kind = "url"
        THEN Return(author \o ". \"" \o title \o ".\" " \o publisher \o ", " \o year
                      \o ". " \o url \o ".")
        ELSE Return(author \o ". " \o title \o ". " \o location \o ": " \o publisher
                      \o ", " \o year \o ".")
    ELSE Return(author \o ". " \o title \o ". " \o year \o ".")

(***************************************************************************)
(* CitationProcessor.identify_bibliography                                 *)
(***************************************************************************)
bib_titles ==
    << "Works Cited", "References", "Bibliography", "Literature Cited", "Sources" >>

\* (?:^|\n)\s*{title}\s*(?:\n|$)(.*?)(?:$|\n\s*(?:[A-Z][a-zA-Z\s]+:|\[)), re.DOTALL
SectionRe(title) ==
    RCat(<< RAlt(<< RBol, RSet({"\n"}) >>),
            RStar(RSet(Space)), RLit(title), RStar(RSet(Space)),
            RAlt(<< RSet({"\n"}), REol >>),
            RGrp(1, RLazy(RAny)),
            RAlt(<< REol,
                    RCat(<< RSet({"\n"}), RStar(RSet(Space)),
                            RAlt(<< RCat(<< RSet(Upper),
                                            RPlus(RSet(Upper \cup Lower \cup Space)),
                                            RSet({":"}) >>),
                                    RSet({"["}) >>) >>) >>) >>)

\* (?:^|\n)([A-Z][a-z]+(?:[-\s][A-Z][a-z]+)*),\s+[A-Z]
SurnameLineRe ==
    RCat(<< RAlt(<< RBol, RSet({"\n"}) >>), RGrp(1, NameRe), RSet({","}),
            RPlus(RSet(Space)), RSet(Upper) >>)

\* a split at every line start that begins with a letter
EntryStartReAnyLetter == RCat(<< RSet({"\n"}), RLook(RSet(Upper \cup Lower)) >>)

\* \n(?=[A-Z])
EntryStartRe == RCat(<< RSet({"\n"}), RLook(RSet(Upper)) >>)

\* ^([A-Z][a-z]+(?:[-\s][A-Z][a-z]+)*)
AuthorRe == RCat(<< RBol, RGrp(1, NameRe) >>)

\* (\d{4})
YearRe == RGrp(1, RTimes(RSet(Digit), 4))

\* "([^"]+)"
QuotedRe == RCat(<< RSet({"\""}), RGrp(1, RPlus(RNot({"\""}))), RSet({"\""}) >>)

\* the loop over bib_titles from the k-th title on: None, or match.group(1).strip()
\* for the first title whose pattern matches
RECURSIVE TitledSection(_, _)
TitledSection(txt, k) ==
    IF k > Len(bib_titles) THEN None
    ELSE LET match == Search(SectionRe(bib_titles[k]), 1, txt) IN
         IF match # << >> THEN Strip(match[1].groups[1], Space)
         ELSE TitledSection(txt, k + 1)

\* the second approach: the last three of more than three paragraphs
TailSection(txt) ==
    LET paragraphs == SplitRe(RLit("\n\n"), txt, 1, 1) IN
    IF Len(paragraphs) > 3
    THEN LET last_paras ==
                 JoinWith(SubSeq(paragraphs, Len(paragraphs) - 2, Len(paragraphs)), "\n\n")
         IN IF Search(SurnameLineRe, 1, last_paras) # << >> THEN last_paras ELSE None
    ELSE None

\* an entry that holds "n.d." when no year is found
ParseEntryWithDefaults(entry_text) ==
    LET year_match == Search(YearRe, 1, entry_text) IN
    [key \in {"year", "raw"} |->
        IF key = "raw" THEN entry_text
        ELSE IF year_match # << >> THEN year_match[1].groups[1] ELSE "n.d."]

\* the body of the loop over entries_raw, for a stripped entry_text that is not empty
ParseEntry(entry_text) ==
    LET author_match == Match(AuthorRe, 1, entry_text)
        year_match   == Search(YearRe, 1, entry_text)
        title_match  == Search(QuotedRe, 1, entry_text)
        title ==
            IF title_match # << >> THEN << title_match[1].groups[1] >>
            ELSE IF author_match # << >> /\ year_match # << >>
                    /\ year_match[1].start > author_match[1].end
            THEN LET potential_title ==
                         Strip(SubSeq(entry_text, author_match[1].end + 1,
                                      year_match[1].start), Space)
                 IN IF potential_title # ""
                    THEN << Strip(potential_title, {".", ",", " "}) >> ELSE << >>
            ELSE << >>
        keys == {"raw"} \cup (IF author_match # << >> THEN {"author"} ELSE {})
                        \cup (IF year_match # << >> THEN {"year"} ELSE {})
                        \cup (IF title # << >> THEN {"title"} ELSE {})
    IN [key \in keys |->
           CASE key = "author" -> author_match[1].groups[1]
             [] key = "year"   -> year_match[1].groups[1]
             [] key = "title"  -> title[1]
             [] key = "raw"    -> entry_text]

\* the loop over entries_raw: the pieces that are empty after strip() are skipped
RECURSIVE ParseEntries(_, _)
ParseEntries(entries_raw, k) ==
    IF k > Len(entries_raw) THEN << >>
    ELSE LET entry_text == Strip(entries_raw[k], Space) IN
         (IF entry_text = "" THEN << >> ELSE << ParseEntry(entry_text) >>)
           \o ParseEntries(entries_raw, k + 1)

identify_bibliography(txt) ==
    LET titled      == TitledSection(txt, 1)
        bib_section == IF Truthy(titled) THEN titled ELSE TailSection(txt)
    IN IF ~Truthy(bib_section) THEN << >>
       ELSE ParseEntries(SplitRe(EntryStartRe, bib_section, 1, 1), 1)

(***************************************************************************)
(* Inputs of the layout core                                               *)
(***************************************************************************)
PageSizeArgs ==
    { << 612 * Scale, 792 * Scale, "point" >>,
      << (17 * Scale) \div 2, 11 * Scale, "inch" >>,
      << 210 * Scale, 297 * Scale, "mm" >>,
      << 816 * Scale, 1056 * Scale, "pixel" >>,
      << (17 * Scale) \div 2, 11 * Scale, "cm" >> }

\* the margin value a call passes, for each unit it may name
MarginArg ==
    [point |-> 400 * Scale, inch |-> 1 * Scale, mm |-> 25 * Scale,
     pixel |-> 48 * Scale, cm |-> 1 * Scale]

UnitArgs == Units \cup {"cm"}

TargetLengths == {66, 100}

\* the sides a set_margins call passes
SideChoices == { {}, {"left"}, {"right"}, {"left", "right"}, {"top", "bottom"}, Sides }

\* the page sizes, in points, of the optimizers whose line breaking and
\* pagination are examined; with the margins of 72 points they give 9 and 5
\* characters per line and 33, 3, 1 and 0 lines per page
PagingPageSizes ==
    { << 209 * Scale, 936 * Scale >>, << 180 * Scale, 216 * Scale >>,
      << 209 * Scale, 168 * Scale >>, << 180 * Scale, 150 * Scale >> }

MaxWords == 3
LineWords == {"aaaa", "bbbb", "cccc", "a", "dddddddddd"}
WordSeparators == {" ", "\n  "}

\* the texts given to calculate_line_breaks
LineTexts ==
    { JoinWith(ws, sep) :
        ws \in UNION { [1..n -> LineWords] : n \in 0..MaxWords },
        sep \in WordSeparators } \cup { " \n  " }

FontSizeArgs == { NoArg, << 24 >> }

MaxLineCount == 8
LineCounts == (0..MaxLineCount) \cup {33, 34, 250}

MaxPosition == 8
MaxHeadings == 2
HeadingPositions == (0..MaxPosition) \cup {32, 33, 34, 35, 36}
HeadingLists == UNION { [1..n -> HeadingPositions] : n \in 0..MaxHeadings }
TextLengths == {0, 7, 40, 250}

\* the documents given to identify_bibliography
BibDocuments ==
    { "Intro text.\n\nReferences\nSmith, John. \"A History.\" 2020.\nJones Amy. Rivers. 2019.",
      "Just words here.",
      "Works Cited\n(anonymous pamphlet)\nLee 2001",
      "References\nSmith, 2020\n\nWorks Cited\nKim Lee. Old Maps, 1987.",
      "One.\n\nTwo.\n\nThree.\n\nSmith, John. Rivers. 2019.",
      "Bibliography\nSmith, John. Rivers. 2019.\nAppendix: more\nJones, 2000",
      "Sources",
      "Sources\nSmith, 2020\nUntitled Notes 1950",
      "Works Cited\nKim Lee. Old Maps, 1987.\nReferences\nSmith, 2020",
      "References\n\nSmith, John. Rivers 2019.\n\nJones, Amy. Hills 2001.\n\nWorks Cited",
      "See Works Cited below.\nReferences\nKim Lee. Old Maps, 1987.",
      "Smith, John. Rivers 2019.\n\nJones, Amy. Hills 2001.",
      "References\nSmith, John. Rivers 2019.\nJones, Amy. Hills 2001.",
      "a\n\nb\n\nc\n\nd",
      "Text.\n\n  Literature Cited \n\n1999 was good\nsmith wrote\n[1] Lee" }

\* the entries a caller builds by hand: every choice of keys, one value per key
FieldValue ==
    [author |-> "Smith, John", title |-> "A History", year |-> "2020",
     publisher |-> "Acme Press", location |-> "London", journal |-> "Nature",
     volume |-> "12", issue |-> "3", pages |-> "45-67", url |-> "http://example.org/a"]

SampleEntries == { [key \in keys |-> FieldValue[key]] : keys \in SUBSET DOMAIN FieldValue }

\* the documents and the entries of the behaviours that format more than once
RepeatDocuments == { "Works Cited\n(anonymous pamphlet)\nLee 2001", "Just words here." }

RepeatEntries ==
    { [key \in keys |-> FieldValue[key]] : keys \in SUBSET {"author", "url"} }

MaxFormats == 2

\* identify_bibliography for each document, computed once
identified_in == [txt \in BibDocuments |-> identify_bibliography(txt)]

(***************************************************************************)
(* State                                                                   *)
(***************************************************************************)
VARIABLES
    text,         \* the document given to extract_citations, as its sentences
    extracted,    \* << >> before the call, then << the dict extract_citations returned >>
    converted,    \* << >>, or << the last convert_citation call: its arguments, the
                  \* list of extracted.citations the citation was taken from, the
                  \* locals after the first if/elif chain, and the result >>
    page_width, page_height, margins,
    content_width, content_height, chars_per_line, lines_per_page,
    last,         \* the last FormatOptimizer call: its name, arguments and outcome
    call,         \* << >>, or << the last call of a FormatOptimizer method that only
                  \* reads the attributes: its name, arguments and outcome >>
    identified,   \* << >> before the call, then << the text given to
                  \* identify_bibliography and the list of entries it returned >>
    formatted,    \* the format_bibliography_entry calls made so far, oldest first
    run,          \* << >>, or << the format_document call made: its arguments, what its
                  \* collaborators did, the stages it entered and what it returned >>
    heap,         \* the objects a Document is made of, by address: its dict, its lists
                  \* and the elements the lists hold
    document,     \* << >> before a Document is constructed, then << its attributes,
                  \* each the address of an object of the heap >>
    formatted_doc \* << >> before document.copy() is called, then << the attributes
                  \* of the Document it returned >>

citeVars   == << text, extracted, converted >>
geometry   == << page_width, page_height, margins >>
metrics    == << content_width, content_height, chars_per_line, lines_per_page >>
layoutVars == << page_width, page_height, margins,
                 content_width, content_height, chars_per_line, lines_per_page, last >>
bibVars    == << identified, formatted >>
docVars    == << run, heap, document, formatted_doc >>
vars == << text, extracted, converted,
           page_width, page_height, margins,
           content_width, content_height, chars_per_line, lines_per_page, last,
           call, identified, formatted,
           run, heap, document, formatted_doc >>

\* FormatOptimizer.__init__: the attributes of a new optimizer
Constructed ==
    LET m == [top |-> 72 * Scale, right |-> 72 * Scale,
              bottom |-> 72 * Scale, left |-> 72 * Scale]
        a == ContentArea(LETTER_WIDTH, LETTER_HEIGHT, m)
    IN [page_width |-> LETTER_WIDTH, page_height |-> LETTER_HEIGHT, margins |-> m,
        content_width |-> a.content_width, content_height |-> a.content_height,
        chars_per_line |-> a.chars_per_line, lines_per_page |-> a.lines_per_page]

\* self._calculate_content_area() on the new page and margins
Recalculate(pw, ph, m) ==
    LET a == ContentArea(pw, ph, m) IN
    /\ content_width' = a.content_width
    /\ content_height' = a.content_height
    /\ chars_per_line' = a.chars_per_line
    /\ lines_per_page' = a.lines_per_page

SetPageSize(width, height, unit) ==
    /\ page_width' = PageToPoints(width, unit)
    /\ page_height' = PageToPoints(height, unit)
    /\ margins' = margins
    /\ Recalculate(page_width', page_height', margins')
    /\ last' = [op |-> "set_page_size", width |-> width, height |-> height,
                unit |-> unit, outcome |-> "return"]

\* The first given side is converted before anything is stored: with a unit that
\* is no key of the dict the lookup raises KeyError and nothing has changed.
SetMargins(top, right, bottom, left, unit) ==
    LET args == [top |-> top, right |-> right, bottom |-> bottom, left |-> left] IN
    IF unit \notin Units /\ \E side \in Sides : Given(args[side])
    THEN /\ UNCHANGED << page_width, page_height, margins,
                         content_width, content_height, chars_per_line, lines_per_page >>
         /\ last' = [op |-> "set_margins", args |-> args, unit |-> unit,
                     outcome |-> "KeyError"]
    ELSE /\ margins' = [side \in Sides |->
                          IF Given(args[side]) THEN convert(args[side][1], unit)
                          ELSE margins[side]]
         /\ UNCHANGED << page_width, page_height >>
         /\ Recalculate(page_width, page_height, margins')
         /\ last' = [op |-> "set_margins", args |-> args, unit |-> unit,
                     outcome |-> "return"]

\* set_margins(left=solution, right=solution), in points, and return self.margins
CalculateOptimalMargins(target_line_length) ==
    LET solution == OptimalMargin(page_width, target_line_length) IN
    /\ margins' = [margins EXCEPT !.left = convert(solution, "point"),
                                  !.right = convert(solution, "point")]
    /\ UNCHANGED << page_width, page_height >>
    /\ Recalculate(page_width, page_height, margins')
    /\ last' = [op |-> "calculate_optimal_margins", target |-> target_line_length,
                solution |-> solution, outcome |-> "return", returned |-> margins']

NextLayout ==
    \/ \E a \in PageSizeArgs : SetPageSize(a[1], a[2], a[3]) /\ UNCHANGED << citeVars, call, bibVars, docVars >>
    \/ \E unit \in UnitArgs :
       \E given \in SideChoices :
          LET arg(side) == IF side \in given THEN << MarginArg[unit] >> ELSE NoArg IN
          SetMargins(arg("top"), arg("right"), arg("bottom"), arg("left"), unit)
            /\ UNCHANGED << citeVars, call, bibVars, docVars >>
    \/ \E t \in TargetLengths : CalculateOptimalMargins(t) /\ UNCHANGED << citeVars, call, bibVars, docVars >>

\* The three methods below only read the attributes; a behaviour shows one call.
CalculateLineBreaks(txt, font_size) ==
    /\ call = << >>
    /\ call' = << [op |-> "calculate_line_breaks", text |-> txt,
                   font_size |-> font_size,
                   chars_per_line |-> LineCapacity(font_size, content_width),
                   words |-> Split(txt),
                   result |-> calculate_line_breaks(txt, font_size, content_width)] >>
    /\ UNCHANGED << citeVars, layoutVars, bibVars, docVars >>

CalculatePagination(line_count) ==
    /\ call = << >>
    /\ call' = << [op |-> "calculate_pagination", line_count |-> line_count,
                   result |-> calculate_pagination(line_count, lines_per_page)] >>
    /\ UNCHANGED << citeVars, layoutVars, bibVars, docVars >>

OptimizeHeadingPlacement(headings_positions, text_length) ==
    /\ call = << >>
    /\ call' = << [op |-> "optimize_heading_placement",
                   headings_positions |-> headings_positions,
                   text_length |-> text_length,
                   result |-> optimize_heading_placement(headings_positions, text_length,
                                                         lines_per_page)] >>
    /\ UNCHANGED << citeVars, layoutVars, bibVars, docVars >>

NextPaging ==
    \/ \E txt \in LineTexts, font_size \in FontSizeArgs : CalculateLineBreaks(txt, font_size)
    \/ \E line_count \in LineCounts : CalculatePagination(line_count)
    \/ \E h \in HeadingLists, text_length \in TextLengths :
          OptimizeHeadingPlacement(h, text_length)

\* an optimizer after set_page_size(width, height), with the margins of __init__
InitPaging ==
    /\ text = << >>
    /\ extracted = << >>
    /\ converted = << >>
    /\ \E size \in PagingPageSizes :
          /\ page_width = size[1]
          /\ page_height = size[2]
          /\ last = [op |-> "set_page_size", width |-> size[1], height |-> size[2],
                     unit |-> "point", outcome |-> "return"]
    /\ margins = Constructed.margins
    /\ content_width = ContentArea(page_width, page_height, margins).content_width
    /\ content_height = ContentArea(page_width, page_height, margins).content_height
    /\ chars_per_line = ContentArea(page_width, page_height, margins).chars_per_line
    /\ lines_per_page = ContentArea(page_width, page_height, margins).lines_per_page
    /\ call = << >>
    /\ identified = << >>
    /\ formatted = << >>
    /\ run = << >>
    /\ heap = << >>
    /\ document = << >>
    /\ formatted_doc = << >>

\* identify_bibliography and format_bibliography_entry read no attribute and
\* assign none; a behaviour shows one call of identify_bibliography.
IdentifyBibliography(txt) ==
    /\ identified = << >>
    /\ identified' = << [text |-> txt, entries |-> identified_in[txt]] >>
    /\ UNCHANGED << citeVars, layoutVars, call, formatted, docVars >>

\* a formatter that answers in APA once a bibliography has been identified
FormatBibliographyEntryStateful(entry, from, style) ==
    /\ formatted' = Append(formatted,
                           [entry |-> entry, from |-> from, style |-> style,
                            before |-> Len(identified) + Len(formatted),
                            result |-> format_bibliography_entry(entry,
                                          IF identified # << >> THEN "apa" ELSE style)])
    /\ UNCHANGED << citeVars, layoutVars, call, identified, docVars >>

\* The entry is one a caller built, or the k-th entry identify_bibliography
\* returned (from = k); the method does not assign to the entry.  "before" is
\* the number of calls of the two methods made before this one.
FormatBibliographyEntry(entry, from, style) ==
    /\ formatted' = Append(formatted,
                           [entry |-> entry, from |-> from, style |-> style,
                            before |-> Len(identified) + Len(formatted),
                            result |-> format_bibliography_entry(entry, style)])
    /\ UNCHANGED << citeVars, layoutVars, call, identified, docVars >>

\* one format call in a behaviour, over all the entries
NextBibliography ==
    \/ \E txt \in BibDocuments : IdentifyBibliography(txt)
    \/ /\ formatted = << >>
       /\ \E entry \in SampleEntries, style \in StyleArgs :
             FormatBibliographyEntry(entry, 0, style)
    \/ /\ formatted = << >>
       /\ identified # << >>
       /\ \E k \in 1..Len(identified[1].entries), style \in StyleArgs :
             FormatBibliographyEntry(identified[1].entries[k], k, style)

\* up to MaxFormats format calls in a behaviour, over a few entries
NextReformat ==
    \/ \E txt \in RepeatDocuments : IdentifyBibliography(txt)
    \/ /\ Len(formatted) < MaxFormats
       /\ \E entry \in RepeatEntries, style \in StyleArgs :
             FormatBibliographyEntry(entry, 0, style)
    \/ /\ Len(formatted) < MaxFormats
       /\ identified # << >>
       /\ \E k \in 1..Len(identified[1].entries), style \in StyleArgs :
             FormatBibliographyEntry(identified[1].entries[k], k, style)

\* a new CitationProcessor, beside a newly constructed optimizer
InitBibliography ==
    /\ text = << >>
    /\ extracted = << >>
    /\ converted = << >>
    /\ page_width = Constructed.page_width
    /\ page_height = Constructed.page_height
    /\ margins = Constructed.margins
    /\ content_width = Constructed.content_width
    /\ content_height = Constructed.content_height
    /\ chars_per_line = Constructed.chars_per_line
    /\ lines_per_page = Constructed.lines_per_page
    /\ last = [op |-> "__init__", outcome |-> "return"]
    /\ call = << >>
    /\ identified = << >>
    /\ formatted = << >>
    /\ run = << >>
    /\ heap = << >>
    /\ document = << >>
    /\ formatted_doc = << >>

\* a document to analyse, beside a newly constructed optimizer
InitCitations ==
    /\ text \in Texts
    /\ extracted = << >>
    /\ converted = << >>
    /\ page_width = Constructed.page_width
    /\ page_height = Constructed.page_height
    /\ margins = Constructed.margins
    /\ content_width = Constructed.content_width
    /\ content_height = Constructed.content_height
    /\ chars_per_line = Constructed.chars_per_line
    /\ lines_per_page = Constructed.lines_per_page
    /\ last = [op |-> "__init__", outcome |-> "return"]
    /\ call = << >>
    /\ identified = << >>
    /\ formatted = << >>
    /\ run = << >>
    /\ heap = << >>
    /\ document = << >>
    /\ formatted_doc = << >>

\* a newly constructed optimizer, with no document under analysis
InitLayout ==
    /\ text = << >>
    /\ extracted = << >>
    /\ converted = << >>
    /\ page_width = Constructed.page_width
    /\ page_height = Constructed.page_height
    /\ margins = Constructed.margins
    /\ content_width = Constructed.content_width
    /\ content_height = Constructed.content_height
    /\ chars_per_line = Constructed.chars_per_line
    /\ lines_per_page = Constructed.lines_per_page
    /\ last = [op |-> "__init__", outcome |-> "return"]
    /\ call = << >>
    /\ identified = << >>
    /\ formatted = << >>
    /\ run = << >>
    /\ heap = << >>
    /\ document = << >>
    /\ formatted_doc = << >>

ExtractCitations ==
    /\ extracted = << >>
    /\ extracted' = << extract_citations(text) >>
    /\ UNCHANGED << text, converted >>

ConvertCitation ==
    /\ extracted # << >>
    /\ \E style \in Styles :
       \E m \in 1..Len(extracted[1].citations[style]) :
       \E from_style \in StyleArgs, to_style \in StyleArgs :
          LET citation == extracted[1].citations[style][m] IN
          converted' = << [citation   |-> citation,
                           listed_as  |-> style,
                           from_style |-> from_style,
                           to_style   |-> to_style,
                           fields     |-> ExtractFields(citation, from_style),
                           result     |-> convert_citation(citation, from_style, to_style)] >>
    /\ UNCHANGED << text, extracted >>

NextCitations ==
    \/ ExtractCitations /\ UNCHANGED << layoutVars, call, bibVars, docVars >>
    \/ ConvertCitation /\ UNCHANGED << layoutVars, call, bibVars, docVars >>

SpecCitations == InitCitations /\ [][NextCitations]_vars

SpecLayout == InitLayout /\ [][NextLayout]_vars

SpecPaging == InitPaging /\ [][NextPaging]_vars

SpecBibliography == InitBibliography /\ [][NextBibliography]_vars

SpecReformat == InitBibliography /\ [][NextReformat]_vars

(***************************************************************************)
(* Edison.format_document (src/backup/app/project-structure.py).  The      *)
(* parser, the formatters and the exporters are collaborators: the parser  *)
(* reads the input file, a formatter returns a document or raises, and an  *)
(* exporter answers as BaseExporter.export declares, True or False, or     *)
(* raises.                                                                 *)
(***************************************************************************)
UpperCase == "ABCDEFGHIJKLMNOPQRSTUVWXYZ"
LowerCase == "abcdefghijklmnopqrstuvwxyz"

\* str.lower()
RECURSIVE lower(_)
lower(s) ==
    IF s = "" THEN ""
    ELSE LET c == Char(s, 1)
             at == { i \in 1..Len(UpperCase) : Char(UpperCase, i) = c }
         IN (IF at = {} THEN c ELSE Char(LowerCase, CHOOSE i \in at : TRUE))
              \o lower(SubSeq(s, 2, Len(s)))

\* str.rfind of one character: the last index of c in p, 0 when there is none
rfind(p, c) ==
    LET at == { i \in 1..Len(p) : Char(p, i) = c }
    IN IF at = {} THEN 0 ELSE CHOOSE i \in at : \A j \in at : j <= i

\* os.path.splitext(p)[1]: the text from the last dot of the last component,
\* unless only dots stand before it in that component
splitext_ext(p) ==
    LET sepIndex == rfind(p, "/")
        dotIndex == rfind(p, ".")
    IN IF dotIndex > sepIndex
          /\ \E i \in (sepIndex + 1)..(dotIndex - 1) : Char(p, i) # "."
       THEN SubSeq(p, dotIndex, Len(p))
       ELSE ""

parse_style(style) ==
    LET style_lower == lower(style) IN
    IF style_lower = "mla" THEN Return("MLA")
    ELSE IF style_lower = "apa" THEN Return("APA")
    ELSE IF style_lower = "chicago" THEN Return("CHICAGO")
    ELSE Raise("ValueError")

determine_output_format(output_file, format_str) ==
    IF Given(format_str) /\ format_str[1] # ""
    THEN LET format_lower == lower(format_str[1]) IN
         IF format_lower = "docx" THEN Return("DOCX")
         ELSE IF format_lower = "pdf" THEN Return("PDF")
         ELSE Raise("ValueError")
    ELSE LET ext == lower(splitext_ext(output_file)) IN
         IF ext = ".docx" THEN Return("DOCX")
         ELSE IF ext = ".pdf" THEN Return("PDF")
         ELSE Raise("ValueError")

\* the files of the run: a text file, and a file that is not UTF-8 text
FileSystem == [p \in {"essay.txt", "scan.bin"} |->
                  IF p = "essay.txt" THEN "text" ELSE "undecodable"]

\* Path(input_file).exists()
exists(input_file) == input_file \in DOMAIN FileSystem

\* DocumentParser.parse: _read_file opens the file as UTF-8 text
parse(input_file) ==
    IF FileSystem[input_file] = "text" THEN Return("Document")
    ELSE Raise("UnicodeDecodeError")

StageOrder == << "input_check", "parse_style", "determine_output_format",
                 "parse", "format", "export" >>

\* format_document, with what the formatter and the exporter do when they are
\* called: the stages entered, in order, and the value returned
format_document(input_file, style, output_file, output_format, format_does, export_does) ==
    IF ~ exists(input_file)
    THEN [stages |-> SubSeq(StageOrder, 1, 1), returned |-> FALSE]
    ELSE IF parse_style(style).outcome = "raise"
    THEN [stages |-> SubSeq(StageOrder, 1, 2), returned |-> FALSE]
    ELSE IF determine_output_format(output_file, output_format).outcome = "raise"
    THEN [stages |-> SubSeq(StageOrder, 1, 3), returned |-> FALSE]
    ELSE IF parse(input_file).outcome = "raise"
    THEN [stages |-> SubSeq(StageOrder, 1, 4), returned |-> FALSE]
    ELSE IF format_does = "raise"
    THEN [stages |-> SubSeq(StageOrder, 1, 5), returned |-> FALSE]
    ELSE IF export_does = "raise"
    THEN [stages |-> SubSeq(StageOrder, 1, 6), returned |-> FALSE]
    ELSE [stages |-> SubSeq(StageOrder, 1, 6), returned |-> TRUE]

InputFiles == {"essay.txt", "scan.bin", "nothing.txt"}
StyleStrings == {"mla", "APA", "Chicago", "harvard"}
OutputFiles == {"essay.docx", "out/essay.PDF", "essay.txt", ".pdf", "essay"}
OutputFormatArgs == {NoArg, << "" >>, << "docx" >>, << "PDF" >>, << "rtf" >>}
FormatOutcomes == {"return", "raise"}
ExportOutcomes == {"True", "False", "raise"}

FormatDocument(input_file, style, output_file, output_format, format_does, export_does) ==
    /\ run = << >>
    /\ run' = << [input_file |-> input_file, style |-> style,
                  output_file |-> output_file, output_format |-> output_format,
                  format_does |-> format_does, export_does |-> export_does,
                  result |-> format_document(input_file, style, output_file,
                                             output_format, format_does, export_does)] >>
    /\ UNCHANGED << citeVars, layoutVars, call, bibVars, heap, document, formatted_doc >>

NextEdison ==
    \E input_file \in InputFiles, style \in StyleStrings, output_file \in OutputFiles,
       output_format \in OutputFormatArgs, format_does \in FormatOutcomes,
       export_does \in ExportOutcomes :
        FormatDocument(input_file, style, output_file, output_format,
                       format_does, export_does)

SpecEdison == InitBibliography /\ [][NextEdison]_vars

(***************************************************************************)
(* Document (src/backup/app/project-modules.py).  A Document holds four    *)
(* references: to a dict and to three lists.  The objects live in the heap *)
(* and are named by their address, so that two Documents, or two lists,    *)
(* can hold the same object.  The elements of the lists are mutable        *)
(* objects with one field, text.  The source leaves the extraction steps   *)
(* of the parser and the formatting steps of the formatters to a later     *)
(* version; here the parser fills the lists of the parsed Document and the *)
(* formatter changes the Document that copy() gave it.                     *)
(***************************************************************************)
MetadataKeys == {"title", "author", "course", "instructor", "date", "institution"}
ListAttributes == {"sections", "citations", "bibliography"}
Attributes == {"metadata"} \cup ListAttributes

EmptyDict == [kind |-> "dict", entries |-> [k \in MetadataKeys |-> ""]]
EmptyList == [kind |-> "list", items |-> << >>]
Element(v) == [kind |-> "element", text |-> v]

\* Document.__init__ on the heap h: the heap with the four new objects
DocumentHeap(h) == h \o << EmptyDict, EmptyList, EmptyList, EmptyList >>

\* Document.__init__ on the heap h: the attributes of the new Document
DocumentAttributes(h) ==
    [metadata |-> Len(h) + 1, sections |-> Len(h) + 2,
     citations |-> Len(h) + 3, bibliography |-> Len(h) + 4]

\* Document.copy() on the heap h: the heap after the call.  dict.copy() and
\* list.copy() make a new container that holds what the old one holds.
CopyHeap(h, doc) ==
    h \o << h[doc.metadata], h[doc.sections], h[doc.citations], h[doc.bibliography] >>

\* what a Document says: its metadata and the texts of the elements of its lists
Content(h, doc) ==
    [attr \in Attributes |->
        IF attr = "metadata" THEN h[doc.metadata].entries
        ELSE [i \in 1..Len(h[doc[attr]].items) |-> h[h[doc[attr]].items[i]].text]]

MaxElements == 1
MaxObjects == 11
ElementTexts == {"x", "y"}
ChangedKeys == {"title"}

\* the parser appends an element to a list of the parsed Document
Extract(attr, v) ==
    /\ document # << >> /\ formatted_doc = << >>
    /\ Len(heap[document[1][attr]].items) < MaxElements
    /\ heap' = Append([heap EXCEPT ![document[1][attr]].items = Append(@, Len(heap) + 1)],
                      Element(v))
    /\ UNCHANGED << document, formatted_doc >>

\* the parser sets a metadata entry of the parsed Document
ExtractMetadata(key, v) ==
    /\ document # << >> /\ formatted_doc = << >>
    /\ heap[document[1].metadata].entries[key] = ""
    /\ heap' = [heap EXCEPT ![document[1].metadata].entries[key] = v]
    /\ UNCHANGED << document, formatted_doc >>

\* formatted_doc = document.copy()
Copy ==
    /\ document # << >> /\ formatted_doc = << >>
    /\ heap' = CopyHeap(heap, document[1])
    /\ formatted_doc' = << DocumentAttributes(heap) >>
    /\ UNCHANGED document

\* formatted_doc.<attr> = a new empty dict or list
Assign(attr) ==
    /\ formatted_doc # << >>
    /\ Len(heap) < MaxObjects
    /\ heap' = Append(heap, IF attr = "metadata" THEN EmptyDict ELSE EmptyList)
    /\ formatted_doc' = << [formatted_doc[1] EXCEPT ![attr] = Len(heap) + 1] >>
    /\ UNCHANGED document

\* formatted_doc.<attr>.append(a new element)
AppendElement(attr, v) ==
    /\ formatted_doc # << >>
    /\ Len(heap) < MaxObjects
    /\ heap' = Append([heap EXCEPT ![formatted_doc[1][attr]].items = Append(@, Len(heap) + 1)],
                      Element(v))
    /\ UNCHANGED << document, formatted_doc >>

\* formatted_doc.metadata[key] = v
SetMetadata(key, v) ==
    /\ formatted_doc # << >>
    /\ heap[formatted_doc[1].metadata].entries[key] # v
    /\ heap' = [heap EXCEPT ![formatted_doc[1].metadata].entries[key] = v]
    /\ UNCHANGED << document, formatted_doc >>

\* formatted_doc.<attr>[i].text = v
MutateElement(attr, i, v) ==
    /\ formatted_doc # << >>
    /\ i \in 1..Len(heap[formatted_doc[1][attr]].items)
    /\ heap[heap[formatted_doc[1][attr]].items[i]].text # v
    /\ heap' = [heap EXCEPT ![heap[formatted_doc[1][attr]].items[i]].text = v]
    /\ UNCHANGED << document, formatted_doc >>

\* a parsed Document, not yet copied
InitDocument ==
    /\ text = << >>
    /\ extracted = << >>
    /\ converted = << >>
    /\ page_width = Constructed.page_width
    /\ page_height = Constructed.page_height
    /\ margins = Constructed.margins
    /\ content_width = Constructed.content_width
    /\ content_height = Constructed.content_height
    /\ chars_per_line = Constructed.chars_per_line
    /\ lines_per_page = Constructed.lines_per_page
    /\ last = [op |-> "__init__", outcome |-> "return"]
    /\ call = << >>
    /\ identified = << >>
    /\ formatted = << >>
    /\ run = << >>
    /\ heap = DocumentHeap(<< >>)
    /\ document = << DocumentAttributes(<< >>) >>
    /\ formatted_doc = << >>

NextDocument ==
    \/ \E attr \in ListAttributes, v \in ElementTexts :
          Extract(attr, v) /\ UNCHANGED << citeVars, layoutVars, call, bibVars, run >>
    \/ \E key \in ChangedKeys, v \in ElementTexts :
          ExtractMetadata(key, v) /\ UNCHANGED << citeVars, layoutVars, call, bibVars, run >>
    \/ Copy /\ UNCHANGED << citeVars, layoutVars, call, bibVars, run >>
    \/ \E attr \in Attributes :
          Assign(attr) /\ UNCHANGED << citeVars, layoutVars, call, bibVars, run >>
    \/ \E attr \in ListAttributes, v \in ElementTexts :
          AppendElement(attr, v) /\ UNCHANGED << citeVars, layoutVars, call, bibVars, run >>
    \/ \E key \in ChangedKeys, v \in ElementTexts \cup {""} :
          SetMetadata(key, v) /\ UNCHANGED << citeVars, layoutVars, call, bibVars, run >>
    \/ \E attr \in ListAttributes, i \in 1..(MaxElements + 1), v \in ElementTexts :
          MutateElement(attr, i, v) /\ UNCHANGED << citeVars, layoutVars, call, bibVars, run >>

SpecDocument == InitDocument /\ [][NextDocument]_vars

(***************************************************************************)
(* Properties of the citation core                                         *)
(***************************************************************************)
Max3(a, b, c) == IF a >= b /\ a >= c THEN a ELSE IF b >= c THEN b ELSE c

\* C1: the dominant style is the first style, in the order MLA, APA, CHICAGO,
\* whose count equals the maximum count, and it is None exactly when all three
\* counts are zero.
C1_DominantIsFirstMaximum ==
    extracted # << >> =>
        LET c  == extracted[1].style_counts
            d  == extracted[1].dominant_style
            mx == Max3(c["mla"], c["apa"], c["chicago"])
        IN /\ (d = None) <=> (\A style \in Styles : c[style] = 0)
           /\ d # None =>
                \E k \in 1..Len(StyleOrder) :
                    /\ d = StyleOrder[k]
                    /\ c[d] = mx
                    /\ \A j \in 1..(k - 1) : c[StyleOrder[j]] < mx

\* a tie at a non-zero maximum between MLA and APA, won by MLA
C1_Witness ==
    /\ extracted # << >>
    /\ extracted[1].style_counts["mla"] = 2
    /\ extracted[1].style_counts["apa"] = 2
    /\ extracted[1].style_counts["chicago"] < 2
    /\ extracted[1].dominant_style = "mla"

\* C2: for each style, the citations returned are in ascending order of the
\* offset of the match in the original text.
C2_AscendingPositions ==
    extracted # << >> =>
        \A style \in Styles :
            LET pos == extracted[1].positions[style] IN
            \A i, j \in 1..Len(pos) : i < j => pos[i] <= pos[j]

IsMlaCall(c) == c.listed_as = "mla" /\ c.from_style = "mla" /\ c.to_style = "apa"

\* C3, as claimed: an MLA citation with groups (author, page) converted from MLA
\* to APA returns "(Author, n.d.)", without a page component.
C3_MlaToApaWithoutPage ==
    converted # << >> /\ IsMlaCall(converted[1]) =>
        converted[1].result =
            Return("(" \o converted[1].citation.groups[1] \o ", n.d.)")

\* C3, amended: an MLA citation with groups (author, page) converted from MLA to
\* APA returns "(Author, n.d., p. Page)": the year is the literal n.d. and the
\* captured page is kept; for Smith/45 the result is "(Smith, n.d., p. 45)".
C3_MlaToApaKeepsPage ==
    converted # << >> /\ IsMlaCall(converted[1]) =>
        /\ converted[1].result =
              Return("(" \o converted[1].citation.groups[1] \o ", n.d., p. "
                         \o converted[1].citation.groups[2] \o ")")
        /\ converted[1].citation.groups = << "Smith", "45" >> =>
              converted[1].result = Return("(Smith, n.d., p. 45)")

C3_Witness ==
    /\ converted # << >>
    /\ IsMlaCall(converted[1])
    /\ converted[1].citation.text = "(Smith 45)"
    /\ converted[1].result.value = "(Smith, n.d., p. 45)"

\* C4: convert with a fromStyle or a toStyle outside {mla, apa, chicago} fails
\* with an invalid-style error: it returns no string and raises no unrelated
\* error such as an unbound variable.
C4_UnknownStyleFails ==
    converted # << >>
      /\ (converted[1].from_style \notin Styles \/ converted[1].to_style \notin Styles) =>
        /\ converted[1].result.outcome = "raise"
        /\ converted[1].result.value \notin {"UnboundLocalError", "IndexError"}

\* ,\s+(\d+(?:-\d+)?)\)  the numeric group that trails the year in a Chicago
\* in-text citation
TrailingPageRe ==
    RCat(<< RLit(","), RPlus(RSet(Space)), RGrp(1, PageRangeRe), RLit(")") >>)

\* C5: from a Chicago in-text citation, the page is the trailing numeric group
\* if present and absent otherwise; without a page the citation converts to APA
\* as "(Author, Year)" and to MLA as "(Author)"; the year is never the page.
C5_ChicagoPageIsTrailingGroup ==
    converted # << >> /\ converted[1].listed_as = "chicago"
      /\ converted[1].from_style = "chicago" /\ converted[1].citation.type = "in_text" =>
        LET c == converted[1]
            trailing == PageFrom(TrailingPageRe, c.citation.text)
        IN /\ c.fields.page = trailing
           /\ trailing = None /\ c.to_style = "apa" =>
                c.result = Return("(" \o c.citation.groups[1] \o ", "
                                      \o c.citation.groups[2] \o ")")
           /\ trailing = None /\ c.to_style = "mla" =>
                c.result = Return("(" \o c.citation.groups[1] \o ")")

\* C6: with the extracted author, year and page (page possibly absent), toStyle
\* MLA gives "(Author Page)" or "(Author)", APA gives "(Author, Year, p. Page)"
\* or "(Author, Year)", and CHICAGO for an in-text citation gives
\* "Author (Year, Page)" or "Author (Year)".
C6_RenderingTable ==
    converted # << >> /\ converted[1].from_style \in Styles
      /\ converted[1].fields.raised = None =>
        LET c == converted[1]
            A == c.fields.author
            Y == c.fields.year
            P == c.fields.page
            out == c.result
        IN /\ c.to_style = "mla" /\ P # None => out = Return("(" \o A \o " " \o P \o ")")
           /\ c.to_style = "mla" /\ P = None => out = Return("(" \o A \o ")")
           /\ c.to_style = "apa" /\ P # None =>
                out = Return("(" \o A \o ", " \o Y \o ", p. " \o P \o ")")
           /\ c.to_style = "apa" /\ P = None => out = Return("(" \o A \o ", " \o Y \o ")")
           /\ c.to_style = "chicago" /\ c.citation.type = "in_text" /\ P # None =>
                out = Return(A \o " (" \o Y \o ", " \o P \o ")")
           /\ c.to_style = "chicago" /\ c.citation.type = "in_text" /\ P = None =>
                out = Return(A \o " (" \o Y \o ")")

\* an APA citation without a page rendered as MLA, and one with a page as Chicago
C6_Witness ==
    /\ converted # << >>
    /\ converted[1].from_style = "apa"
    /\ converted[1].fields.page = None
    /\ converted[1].to_style = "mla"
    /\ converted[1].result = Return("(Smith)")

(***************************************************************************)
(* Properties of the layout core                                           *)
(***************************************************************************)
\* C7: after any sequence of setPageSize, setMargins and calculateOptimalMargins
\* calls the content area is positive (pageWidth > left + right and
\* pageHeight > top + bottom) and charsPerLine and linesPerPage are not negative.
C7_ContentAreaPositive ==
    /\ page_width > margins.left + margins.right
    /\ page_height > margins.top + margins.bottom
    /\ content_width > 0
    /\ content_height > 0
    /\ chars_per_line >= 0
    /\ lines_per_page >= 0

\* C8: calculateOptimalMargins fails with a geometry error whenever the solved
\* margin x = (pageWidth - targetLineLength * fontSize * 0.6) / 2 is negative.
C8_NegativeMarginFails ==
    last.op = "calculate_optimal_margins"
      /\ OptimalMargin(page_width, last.target) < 0 =>
        last.outcome # "return"

\* C9: setPageSize and setMargins with a unit outside {point, inch, mm, pixel}
\* fail, also when setMargins is given no side at all.
C9_UnknownUnitFails ==
    last.op \in {"set_page_size", "set_margins"} /\ last.unit \notin Units =>
        last.outcome # "return"

\* C10: in every reachable state the derived metrics are the formulas applied to
\* the current geometry, with charsPerLine = floor(contentWidth / 7.2) and
\* linesPerPage = floor(contentHeight / 24); in the default state contentWidth
\* is 468.
C10_MetricsFollowGeometry ==
    /\ content_width = page_width - margins.left - margins.right
    /\ content_height = page_height - margins.top - margins.bottom
    /\ chars_per_line = content_width \div ((72 * Scale) \div 10)
    /\ lines_per_page = content_height \div (24 * Scale)
    /\ last.op = "__init__" => content_width = 468 * Scale

\* the points each margin argument of the catalog stands for: 400 pt, 1 in x 72,
\* 25 mm x 2.83465 = 70.866, 48 px / 1.33333 = 36.000
ExpectedPoints ==
    [point |-> 400 * Scale, inch |-> 72 * Scale, mm |-> 70866, pixel |-> 36000]

\* C11: a setMargins call that returns stores each supplied side converted to
\* points (inch x72, mm x2.83465, pixel /1.33333, point unchanged), keeps every
\* omitted side at its previous value, and leaves the page size unchanged.
C11_SetMarginsFrame ==
    [][last'.op = "set_margins" /\ last'.outcome = "return" =>
         /\ \A side \in Sides :
               margins'[side] = IF Given(last'.args[side])
                                THEN ExpectedPoints[last'.unit]
                                ELSE margins[side]
         /\ \A side \in Sides :
               Given(last'.args[side]) => last'.args[side][1] = MarginArg[last'.unit]
         /\ page_width' = page_width
         /\ page_height' = page_height]_vars

\* the left margin given in millimetres and stored in points, beside a right
\* margin that an earlier call set and this call omitted, and one in pixels
C11_Witness ==
    /\ last.op = "set_margins" /\ last.outcome = "return"
    /\ last.unit = "mm"
    /\ Given(last.args.left) /\ ~Given(last.args.right)
    /\ margins.left = 70866
    /\ margins.right = 36000
    /\ margins.top = 72 * Scale

\* C12: calculateOptimalMargins(targetLineLength) sets the left and the right
\* margin to x = (pageWidth - targetLineLength * fontSize * 0.6) / 2, leaves the
\* top and bottom margins and the page size unchanged, and returns the resulting
\* margins; with page width 612 and font size 12, target 66 gives 68.4.
C12_OptimalMarginsSolved ==
    [][last'.op = "calculate_optimal_margins" =>
         LET x == (page_width - last'.target * ((72 * Scale) \div 10)) \div 2 IN
         /\ margins'.left = x
         /\ margins'.right = x
         /\ margins'.top = margins.top
         /\ margins'.bottom = margins.bottom
         /\ page_width' = page_width
         /\ page_height' = page_height
         /\ last'.returned = margins'
         /\ page_width = 612 * Scale /\ last'.target = 66 =>
               margins'.left = 68400 /\ margins'.right = 68400]_vars

C12_Witness ==
    /\ last.op = "calculate_optimal_margins"
    /\ last.target = 66
    /\ page_width = 612 * Scale
    /\ margins.left = 68400
    /\ margins.right = 68400
    /\ last.returned = margins

(***************************************************************************)
(* Properties of line breaking, pagination and heading placement           *)
(***************************************************************************)
IsCall(op) == call # << >> /\ call[1].op = op

\* C13: calculate_line_breaks is greedy.  A word is appended to the current
\* line, after one space when the line is not empty, exactly when the line
\* then holds at most chars_per_line characters, and otherwise closes the line
\* and opens the next one: every line of two or more words is at most
\* chars_per_line long, the first word of every line after the first would not
\* have fitted on the line before it, and a first word that fits opens the
\* first line.  "aaaa bbbb cccc" with 9 characters per line gives
\* "aaaa bbbb", "cccc".
C13_GreedyLines ==
    IsCall("calculate_line_breaks") =>
        LET lines == call[1].result
            words == call[1].words
            cpl   == call[1].chars_per_line
        IN /\ \A k \in 1..Len(lines) :
                 Len(Split(lines[k])) >= 2 => Len(lines[k]) <= cpl
           /\ \A k \in 1..(Len(lines) - 1) :
                 /\ Split(lines[k + 1]) # << >>
                 /\ Len(lines[k]) + Len(Split(lines[k + 1])[1])
                      + (IF Len(lines[k]) > 0 THEN 1 ELSE 0) > cpl
           /\ (words # << >> /\ Len(words[1]) <= cpl) =>
                 lines # << >> /\ Split(lines[1]) # << >> /\ Split(lines[1])[1] = words[1]
           /\ (call[1].text = "aaaa bbbb cccc" /\ cpl = 9) =>
                 lines = << "aaaa bbbb", "cccc" >>

C13_Witness ==
    /\ IsCall("calculate_line_breaks")
    /\ call[1].text = "aaaa bbbb cccc"
    /\ call[1].chars_per_line = 9
    /\ call[1].result = << "aaaa bbbb", "cccc" >>

\* C14: a word longer than chars_per_line is not split and is an output line
\* by itself; no output line is empty, so an overlong first word is the first
\* output line.
C14_OverlongWordAlone ==
    IsCall("calculate_line_breaks") =>
        LET lines == call[1].result
            words == call[1].words
            cpl   == call[1].chars_per_line
        IN /\ \A j \in 1..Len(words) :
                 Len(words[j]) > cpl => \E k \in 1..Len(lines) : lines[k] = words[j]
           /\ \A k \in 1..Len(lines) : lines[k] # ""
           /\ (words # << >> /\ Len(words[1]) > cpl) => lines[1] = words[1]

\* C16: for line_count >= 0 and lines_per_page >= 1, calculate_pagination
\* returns the least number of pages of lines_per_page lines that hold
\* line_count lines: 0 pages for 0 lines, and 8 pages for 250 lines at 33
\* lines per page.
C16_PaginationIsCeiling ==
    IsCall("calculate_pagination") /\ lines_per_page >= 1 /\ call[1].line_count >= 0 =>
        /\ call[1].result.outcome = "return"
        /\ LET pages == call[1].result.value IN
           /\ pages >= 0
           /\ pages * lines_per_page >= call[1].line_count
           /\ (pages - 1) * lines_per_page < call[1].line_count
           /\ call[1].line_count = 0 => pages = 0
           /\ (call[1].line_count = 250 /\ lines_per_page = 33) => pages = 8

C16_Witness ==
    /\ IsCall("calculate_pagination")
    /\ lines_per_page = 33
    /\ call[1].line_count = 250
    /\ call[1].result.outcome = "return"
    /\ call[1].result.value = 8

\* the page breaks of a text: i * lines_per_page for i = 1 .. pages - 1
BreaksOf(text_length, lpp) ==
    { i * lpp : i \in 1..(((text_length + lpp - 1) \div lpp) - 1) }

\* C15: for lines_per_page >= 1, optimize_heading_placement returns one
\* placement per heading, in the order of the input.  A heading at position p
\* that is one or two lines after a page break b (b = i * lines_per_page,
\* i = 1 .. pages - 1) is placed at b - 1 on page (b - 1) div lines_per_page + 1;
\* every other heading keeps p with page p div lines_per_page + 1.  With a
\* break at 33 (33 lines per page), a heading at 34 is placed at 32 on page 1.
C15_HeadingsLeaveBreaks ==
    IsCall("optimize_heading_placement") /\ lines_per_page >= 1 =>
        /\ call[1].result.outcome = "return"
        /\ LET placed == call[1].result.value
               heads  == call[1].headings_positions
               breaks == BreaksOf(call[1].text_length, lines_per_page)
               near(p) == { b \in breaks : 0 < p - b /\ p - b < 3 }
           IN /\ Len(placed) = Len(heads)
              /\ \A k \in 1..Len(heads) :
                    /\ placed[k].page = (placed[k].position \div lines_per_page) + 1
                    /\ near(heads[k]) = {} => placed[k].position = heads[k]
                    /\ near(heads[k]) # {} =>
                          \E b \in near(heads[k]) : placed[k].position = b - 1
              /\ (heads = << 34 >> /\ lines_per_page = 33 /\ 33 \in breaks) =>
                    placed = << [position |-> 32, page |-> 1] >>

C15_Witness ==
    /\ IsCall("optimize_heading_placement")
    /\ lines_per_page = 33
    /\ call[1].headings_positions = << 34 >>
    /\ call[1].text_length = 40
    /\ call[1].result.outcome = "return"
    /\ call[1].result.value = << [position |-> 32, page |-> 1] >>

\* the results of the source for some calls, as the program returns them
PagingSamples ==
    /\ (IsCall("calculate_line_breaks") /\ call[1].text = "dddddddddd aaaa"
          /\ call[1].chars_per_line = 9) =>
            call[1].result = << "", "dddddddddd", "aaaa" >>
    /\ (IsCall("calculate_line_breaks") /\ call[1].text = "aaaa bbbb cccc"
          /\ call[1].chars_per_line = 4) =>
            call[1].result = << "aaaa", "bbbb", "cccc" >>
    /\ (IsCall("optimize_heading_placement") /\ lines_per_page = 3
          /\ call[1].text_length = 7 /\ call[1].headings_positions = << 5, 6 >>) =>
            call[1].result.value = << [position |-> 2, page |-> 1],
                                      [position |-> 6, page |-> 3] >>
    /\ (IsCall("optimize_heading_placement") /\ lines_per_page = 1
          /\ call[1].text_length = 7 /\ call[1].headings_positions = << 3, 5 >>) =>
            call[1].result.value = << [position |-> 0, page |-> 1],
                                      [position |-> 2, page |-> 3] >>

(***************************************************************************)
(* Properties of the counts and of the bibliography                        *)
(***************************************************************************)
\* C17: the style_counts returned by extract_citations have exactly the keys
\* mla, apa and chicago, and each count is the number of citations returned
\* for that style: one per match of a pattern, not one per sentence.  A text in
\* which no pattern matches gives three counts of 0 and three empty lists, and
\* no dominant style.
C17_CountsAreCitationCounts ==
    extracted # << >> =>
        LET r == extracted[1] IN
        /\ DOMAIN r.style_counts = {"mla", "apa", "chicago"}
        /\ DOMAIN r.citations = {"mla", "apa", "chicago"}
        /\ \A style \in Styles : r.style_counts[style] = Len(r.citations[style])
        /\ \A style \in Styles :
              r.style_counts[style] =
                 SumSeq([k \in 1..Len(text) |->
                    SumSeq([j \in 1..2 |->
                       Len(FindIter(citation_patterns[style][j].re,
                                    citation_patterns[style][j].n, text[k]))])])
        /\ (\A k \in 1..Len(text) : text[k] = "No citation here.") =>
              /\ \A style \in Styles :
                    r.style_counts[style] = 0 /\ r.citations[style] = << >>
              /\ r.dominant_style = None

\* one sentence with two APA citations: the count is 2
C17_Witness ==
    /\ extracted # << >>
    /\ text = << "See (Smith, 2020) and Jones (2019)." >>
    /\ extracted[1].style_counts["apa"] = 2
    /\ Len(extracted[1].citations["apa"]) = 2
    /\ extracted[1].style_counts["mla"] = 0

\* the value a template shows for a field: the entry's value, or the fallback
\* literal of author, title and year, or nothing
Shown(entry, key) ==
    IF key \in DOMAIN entry THEN entry[key]
    ELSE CASE key = "author" -> "Unknown Author"
           [] key = "title"  -> "Untitled"
           [] key = "year"   -> "n.d."
           [] OTHER          -> ""

\* the nine templates, by style and kind of entry
Template(style, kind, e) ==
    LET Author    == Shown(e, "author")
        Title     == Shown(e, "title")
        Year      == Shown(e, "year")
        Publisher == Shown(e, "publisher")
        Location  == Shown(e, "location")
        Journal   == Shown(e, "journal")
        Volume    == Shown(e, "volume")
        Issue     == Shown(e, "issue")
        Pages     == Shown(e, "pages")
        Url       == Shown(e, "url")
    IN CASE style = "mla" /\ kind = "journal" ->
              Author \o ". \"" \o Title \o ".\" " \o Journal \o ", vol. " \o Volume
                \o ", no. " \o Issue \o ", " \o Year \o ", pp. " \o Pages \o "."
         [] style = "mla" /\ kind = "web" ->
              Author \o ". \"" \o Title \o ".\" " \o Publisher \o ", " \o Year \o ", "
                \o Url \o "."
         [] style = "mla" /\ kind = "book" ->
              Author \o ". " \o Title \o ". " \o Location \o ": " \o Publisher \o ", "
                \o Year \o "."
         [] style = "apa" /\ kind = "journal" ->
              Author \o ". (" \o Year \o "). " \o Title \o ". " \o Journal \o ", "
                \o Volume \o "(" \o Issue \o "), " \o Pages \o "."
         [] style = "apa" /\ kind = "web" ->
              Author \o ". (" \o Year \o "). " \o Title \o ". " \o Publisher \o ". " \o Url
         [] style = "apa" /\ kind = "book" ->
              Author \o ". (" \o Year \o "). " \o Title \o ". " \o Publisher \o "."
         [] style = "chicago" /\ kind = "journal" ->
              Author \o ". \"" \o Title \o ".\" " \o Journal \o " " \o Volume \o ", no. "
                \o Issue \o " (" \o Year \o "): " \o Pages \o "."
         [] style = "chicago" /\ kind = "web" ->
              Author \o ". \"" \o Title \o ".\" " \o Publisher \o ", " \o Year \o ". "
                \o Url \o "."
         [] style = "chicago" /\ kind = "book" ->
              Author \o ". " \o Title \o ". " \o Location \o ": " \o Publisher \o ", "
                \o Year \o "."

\* C18: format_bibliography_entry takes an entry that holds journal for a
\* journal article (also when it holds a url), otherwise one that holds url for
\* a web page, otherwise for a book, and for each of the three styles returns
\* the template of that style and kind with the fields of the entry in it.
C18_TemplateByKind ==
    formatted # << >> /\ formatted[1].style \in Styles =>
        LET e    == formatted[1].entry
            kind == IF "journal" \in DOMAIN e THEN "journal"
                    ELSE IF "url" \in DOMAIN e THEN "web" ELSE "book"
        IN /\ formatted[1].result.outcome = "return"
           /\ formatted[1].result.value = Template(formatted[1].style, kind, e)

\* an entry with every field, a journal and a url among them, in APA
C18_Witness ==
    /\ formatted # << >>
    /\ formatted[1].style = "apa"
    /\ formatted[1].entry = FieldValue
    /\ formatted[1].result.value
         = "Smith, John. (2020). A History. Nature, 12(3), 45-67."

\* C19: format_bibliography_entry with a style that is none of mla, apa and
\* chicago fails with an error and returns no formatted string.
C19_UnknownStyleFails ==
    formatted # << >> /\ formatted[1].style \notin Styles =>
        formatted[1].result.outcome = "raise"

\* whether sub occurs in s
Contains(s, sub) ==
    \E i \in 1..(Len(s) - Len(sub) + 1) : SubSeq(s, i, i + Len(sub) - 1) = sub

FallbackLiterals == {"Unknown Author", "Untitled", "n.d."}

\* C20: the literals "Unknown Author", "Untitled" and "n.d." appear at format
\* time only.  A format call shows them for a missing author, title or year,
\* and only for a missing one, and leaves the entries it was given as they
\* were; an entry returned by identify_bibliography holds raw and, of author,
\* year and title, only what was found in raw, and never a fallback literal.
C20_FallbacksAtFormatTimeOnly ==
    [][/\ formatted' # formatted =>
            LET e == formatted'[1].entry
                r == formatted'[1].result.value
            IN /\ identified' = identified
               /\ formatted'[1].from > 0 => identified'[1].entries[formatted'[1].from] = e
               /\ ("author" \notin DOMAIN e) <=> Contains(r, "Unknown Author")
               /\ ("title" \notin DOMAIN e) <=> Contains(r, "Untitled")
               /\ ("year" \notin DOMAIN e) <=> Contains(r, "n.d.")
       /\ identified' # identified =>
            \A k \in 1..Len(identified'[1].entries) :
                LET e == identified'[1].entries[k] IN
                /\ "raw" \in DOMAIN e
                /\ e["raw"] # ""
                /\ DOMAIN e \subseteq {"author", "year", "title", "raw"}
                /\ \A key \in DOMAIN e :
                      e[key] \notin FallbackLiterals /\ Contains(e["raw"], e[key])
                /\ ("year" \in DOMAIN e) <=>
                      \E i \in 1..(Len(e["raw"]) - 3) :
                          \A q \in i..(i + 3) : Char(e["raw"], q) \in Digit
                /\ ("author" \in DOMAIN e) <=>
                      /\ Len(e["raw"]) >= 2
                      /\ Char(e["raw"], 1) \in Upper
                      /\ Char(e["raw"], 2) \in Lower]_vars

\* an entry identify_bibliography returned with nothing but raw, formatted with
\* the three literals and still holding nothing but raw
C20_Witness ==
    /\ identified # << >>
    /\ formatted # << >>
    /\ formatted[1].from = 1
    /\ identified[1].entries[1] = [raw |-> "(anonymous pamphlet)"]
    /\ formatted[1].style = "apa"
    /\ formatted[1].result.value = "Unknown Author. (n.d.). Untitled. ."

(***************************************************************************)
(* Properties of the bibliography parser                                   *)
(***************************************************************************)
TitleOrder ==
    << "Works Cited", "References", "Bibliography", "Literature Cited", "Sources" >>

\* title stands at index i of txt on a line of its own: only whitespace lies
\* between it and the line breaks (or the ends of txt) around it
TitleLineAt(txt, title, i) ==
    /\ i + Len(title) - 1 <= Len(txt)
    /\ SubSeq(txt, i, i + Len(title) - 1) = title
    /\ \E j \in 0..(i - 1) :
          /\ j = 0 \/ Char(txt, j) = "\n"
          /\ \A q \in (j + 1)..(i - 1) : Char(txt, q) \in Space
    /\ \E j \in (i + Len(title))..(Len(txt) + 1) :
          /\ j = Len(txt) + 1 \/ Char(txt, j) = "\n"
          /\ \A q \in (i + Len(title))..(j - 1) : Char(txt, q) \in Space

TitleOccurs(txt, title) == \E i \in 1..Len(txt) : TitleLineAt(txt, title, i)

\* C21: identify_bibliography tries the titles in the order Works Cited,
\* References, Bibliography, Literature Cited, Sources and takes its block
\* after the line of the first title of that order that the text holds,
\* wherever the titles stand in the text: every entry returned is text that
\* follows that title line.  With a References and a Works Cited section the
\* entries come from what follows Works Cited.
C21_FirstTitleAnchors ==
    identified # << >> =>
        LET txt   == identified[1].text
            found == { k \in 1..Len(TitleOrder) : TitleOccurs(txt, TitleOrder[k]) }
        IN found # {} =>
              LET title == TitleOrder[CHOOSE k \in found : \A h \in found : k <= h] IN
              \A n \in 1..Len(identified[1].entries) :
                  \E i \in 1..Len(txt) :
                      /\ TitleLineAt(txt, title, i)
                      /\ Contains(SubSeq(txt, i + Len(title), Len(txt)),
                                  identified[1].entries[n]["raw"])

\* the same, for the texts in which something other than whitespace follows
\* the line of the first title
C21_FirstTitleWithContent ==
    identified # << >> =>
        LET txt   == identified[1].text
            found == { k \in 1..Len(TitleOrder) : TitleOccurs(txt, TitleOrder[k]) }
        IN found # {} =>
              LET title == TitleOrder[CHOOSE k \in found : \A h \in found : k <= h] IN
              (\E i \in 1..Len(txt) :
                  /\ TitleLineAt(txt, title, i)
                  /\ Strip(SubSeq(txt, i + Len(title), Len(txt)), Space) # "") =>
              /\ identified[1].entries # << >>
              /\ \A n \in 1..Len(identified[1].entries) :
                  \E i \in 1..Len(txt) :
                      /\ TitleLineAt(txt, title, i)
                      /\ Contains(SubSeq(txt, i + Len(title), Len(txt)),
                                  identified[1].entries[n]["raw"])

\* the last three paragraphs of txt (all of them when there are fewer), where
\* paragraphs are separated by an empty line
LastParagraphs(txt) ==
    LET paragraphs == SplitRe(RLit("\n\n"), txt, 1, 1)
        from       == IF Len(paragraphs) > 3 THEN Len(paragraphs) - 2 ELSE 1
    IN JoinWith(SubSeq(paragraphs, from, Len(paragraphs)), "\n\n")

NoTitle(txt) == \A k \in 1..Len(TitleOrder) : ~TitleOccurs(txt, TitleOrder[k])

\* C22: for a text without a title line, whatever the number of its
\* paragraphs, identify_bibliography takes the last three paragraphs as the
\* block when a line of them starts with a capitalised surname, a comma and a
\* capital initial, and then returns entries taken from them; when they hold
\* no such line it returns the empty list.
C22_TailFallback ==
    identified # << >> /\ NoTitle(identified[1].text) =>
        LET tail == LastParagraphs(identified[1].text) IN
        IF Search(SurnameLineRe, 1, tail) # << >>
        THEN /\ identified[1].entries # << >>
             /\ \A n \in 1..Len(identified[1].entries) :
                   Contains(tail, identified[1].entries[n]["raw"])
        ELSE identified[1].entries = << >>

\* the index of the first character of txt from index i on that is no
\* whitespace, or Len(txt) + 1
SkipSpace(txt, i) ==
    CHOOSE j \in i..(Len(txt) + 1) :
        /\ j = Len(txt) + 1 \/ Char(txt, j) \notin Space
        /\ \A q \in i..(j - 1) : Char(txt, q) \in Space

\* from index i on, txt holds raws[k], raws[k+1], ... one after the other with
\* only whitespace between them, each but the first of all at a line start
\* and beginning with a capital letter
RECURSIVE InOrder(_, _, _, _)
InOrder(txt, i, raws, k) ==
    IF k > Len(raws) THEN TRUE
    ELSE LET j == SkipSpace(txt, i) IN
         /\ j + Len(raws[k]) - 1 <= Len(txt)
         /\ SubSeq(txt, j, j + Len(raws[k]) - 1) = raws[k]
         /\ k > 1 => Char(txt, j) \in Upper /\ Char(txt, j - 1) = "\n"
         /\ InOrder(txt, j + Len(raws[k]), raws, k + 1)

\* C23: identify_bibliography splits its block at every line start that
\* begins with a capital letter and returns one entry for each piece that is
\* not empty, in the order of the text.  The raw of each entry is the text of
\* its piece and is not empty, also when no author, year or title was found:
\* no raw holds a line start with a capital letter, and the raws stand in the
\* text one after the other with only whitespace between them.  A References
\* line followed by two lines that begin with an author gives two entries.
C23_OneEntryPerPiece ==
    identified # << >> =>
        LET txt  == identified[1].text
            raws == [n \in 1..Len(identified[1].entries) |->
                        identified[1].entries[n]["raw"]]
        IN /\ \A n \in 1..Len(raws) :
                 /\ raws[n] # ""
                 /\ Strip(raws[n], Space) = raws[n]
                 /\ \A q \in 1..(Len(raws[n]) - 1) :
                       ~(Char(raws[n], q) = "\n" /\ Char(raws[n], q + 1) \in Upper)
           /\ raws # << >> => \E i \in 1..Len(txt) : InOrder(txt, i, raws, 1)
           /\ txt = "References\nSmith, John. Rivers 2019.\nJones, Amy. Hills 2001." =>
                 raws = << "Smith, John. Rivers 2019.", "Jones, Amy. Hills 2001." >>
           /\ txt = "Works Cited\n(anonymous pamphlet)\nLee 2001" =>
                 /\ raws = << "(anonymous pamphlet)", "Lee 2001" >>
                 /\ DOMAIN identified[1].entries[1] = {"raw"}

C23_Witness ==
    /\ identified # << >>
    /\ identified[1].text = "References\nSmith, John. Rivers 2019.\nJones, Amy. Hills 2001."
    /\ Len(identified[1].entries) = 2
    /\ identified[1].entries[1]["raw"] = "Smith, John. Rivers 2019."
    /\ identified[1].entries[2]["raw"] = "Jones, Amy. Hills 2001."

ChicagoSentinel == "[Citation converted to Chicago footnote]"

OfKind(citations, type) == SelectSeq(citations, LAMBDA c : c.type = type)

\* C28: the two MLA patterns are one pattern, so every MLA occurrence gives
\* two citation records, an in_text one and a parenthetical one with the same
\* text, captured groups and sentence, and adds 2 to the MLA count: the MLA
\* count is even, and a text with one MLA occurrence and one APA parenthetical
\* occurrence has the counts 2 and 1 and the dominant style mla.
C28_MlaCountedTwice ==
    extracted # << >> =>
        LET r       == extracted[1]
            in_text == OfKind(r.citations.mla, "in_text")
            parenth == OfKind(r.citations.mla, "parenthetical")
        IN /\ citation_patterns.mla[1].re = citation_patterns.mla[2].re
           /\ Len(in_text) + Len(parenth) = Len(r.citations.mla)
           /\ Len(in_text) = Len(parenth)
           /\ \A k \in 1..Len(in_text) :
                 /\ in_text[k].text = parenth[k].text
                 /\ in_text[k].groups = parenth[k].groups
                 /\ in_text[k].sentence = parenth[k].sentence
           /\ r.style_counts.mla = 2 * Len(in_text)
           /\ r.style_counts.mla % 2 = 0
           /\ (Len(in_text) = 1 /\ Len(r.citations.apa) = 1 /\ r.citations.chicago = << >>
               /\ r.citations.apa[1].type = "parenthetical") =>
                 /\ r.style_counts.mla = 2 /\ r.style_counts.apa = 1
                 /\ r.dominant_style = "mla"

\* one MLA occurrence and one APA parenthetical occurrence
C28_Witness ==
    /\ extracted # << >>
    /\ text = << "As shown (Smith 45).", "Also (Lee, 2021)." >>
    /\ Len(extracted[1].citations.mla) = 2
    /\ Len(extracted[1].citations.apa) = 1
    /\ extracted[1].citations.apa[1].type = "parenthetical"
    /\ extracted[1].citations.chicago = << >>
    /\ extracted[1].dominant_style = "mla"

(***************************************************************************)
(* Further properties of line breaking and heading placement               *)
(***************************************************************************)
\* the pieces of a line between its spaces that hold a character
RECURSIVE AtSpaces(_, _, _)
AtSpaces(line, i, piece) ==
    IF i > Len(line) THEN (IF piece = "" THEN << >> ELSE << piece >>)
    ELSE IF SubSeq(line, i, i) = " "
         THEN (IF piece = "" THEN << >> ELSE << piece >>) \o AtSpaces(line, i + 1, "")
         ELSE AtSpaces(line, i + 1, piece \o SubSeq(line, i, i))

RECURSIVE WordsOfLines(_)
WordsOfLines(lines) ==
    IF lines = << >> THEN << >>
    ELSE AtSpaces(Head(lines), 1, "") \o WordsOfLines(Tail(lines))

\* C29: calculate_line_breaks loses, duplicates, reorders and splits no word.
\* The words of the output lines, each line split at its spaces, taken line by
\* line, are the whitespace-separated words of the input text in their order,
\* and a text without a word gives no line.
C29_WordsKept ==
    IsCall("calculate_line_breaks") =>
        LET lines == call[1].result
            words == Split(call[1].text)
        IN /\ WordsOfLines(lines) = words
           /\ words = << >> => lines = << >>

\* three words on two lines
C29_Witness ==
    /\ IsCall("calculate_line_breaks")
    /\ call[1].text = "aaaa\n  bbbb\n  cccc"
    /\ call[1].result = << "aaaa bbbb", "cccc" >>
    /\ WordsOfLines(call[1].result) = << "aaaa", "bbbb", "cccc" >>

\* a text of blanks only
C29_WitnessNoWord ==
    /\ IsCall("calculate_line_breaks")
    /\ call[1].text = " \n  "
    /\ call[1].result = << >>

\* C30: optimize_heading_placement keeps the order of the headings.  For
\* heading positions in strictly ascending order the positions of the result
\* are in ascending order and no two of them are the same line.
C30_HeadingsKeepOrder ==
    (IsCall("optimize_heading_placement") /\ call[1].result.outcome = "return") =>
        LET placed == call[1].result.value
            heads  == call[1].headings_positions
        IN (\A k \in 1..(Len(heads) - 1) : heads[k] < heads[k + 1]) =>
              \A k \in 1..(Len(placed) - 1) :
                  placed[k].position < placed[k + 1].position

(***************************************************************************)
(* Properties of Edison.format_document                                    *)
(***************************************************************************)
\* whether a stage of the call did what it is there for
Succeeded(stage, r) ==
    CASE stage = "input_check" -> r.input_file \in DOMAIN FileSystem
      [] stage = "parse_style" -> lower(r.style) \in {"mla", "apa", "chicago"}
      [] stage = "determine_output_format" ->
            IF r.output_format \notin {NoArg, << "" >>}
            THEN lower(r.output_format[1]) \in {"docx", "pdf"}
            ELSE lower(splitext_ext(r.output_file)) \in {".docx", ".pdf"}
      [] stage = "parse" -> FileSystem[r.input_file] = "text"
      [] stage = "format" -> r.format_does = "return"
      [] stage = "export" -> r.export_does = "True"

\* C26: format_document runs its stages in the order input-file check, style
\* parsing, output-format determination, document parsing, formatting, export.
\* The first stage that fails is the last stage run and the call returns
\* False; the call returns True only when all six stages, the export
\* included, succeeded.
C26_StagesInOrder ==
    run # << >> =>
        LET r      == run[1]
            stages == r.result.stages
            n      == Len(stages)
        IN /\ n >= 1 /\ stages = SubSeq(StageOrder, 1, n)
           /\ \A k \in 1..(n - 1) : Succeeded(stages[k], r)
           /\ n < Len(StageOrder) => ~ Succeeded(stages[n], r)
           /\ r.result.returned = TRUE <=>
                 (n = Len(StageOrder) /\ Succeeded(stages[n], r))

\* the same with an export that counts as failed only when it raises: the
\* order of the stages and the early returns are as C26 says
C26_StagesInOrderExportRaising ==
    run # << >> =>
        LET r      == run[1]
            stages == r.result.stages
            n      == Len(stages)
            ok(k)  == IF stages[k] = "export" THEN r.export_does # "raise"
                      ELSE Succeeded(stages[k], r)
        IN /\ n >= 1 /\ stages = SubSeq(StageOrder, 1, n)
           /\ \A k \in 1..(n - 1) : ok(k)
           /\ n < Len(StageOrder) => ~ ok(n)
           /\ r.result.returned = TRUE <=> (n = Len(StageOrder) /\ ok(n))

(***************************************************************************)
(* Properties of Document.copy                                             *)
(***************************************************************************)
\* C27: Document.copy returns a deep copy.  Once the copy is made, no change
\* made through it - an attribute given a new dict or list, an element
\* appended, a metadata entry set, an element of a list mutated - changes what
\* the original document says.
C27_CopyIsDeep ==
    [][formatted_doc # << >> => Content(heap', document'[1]) = Content(heap, document[1])]_vars

\* the containers of the copy are new objects that hold what the original's
\* hold: changes of the containers themselves do not reach the original
C27_ContainersAreCopied ==
    [][(formatted_doc # << >>
          /\ \A attr \in ListAttributes :
                \A i \in 1..Len(heap[formatted_doc[1][attr]].items) :
                    heap'[heap[formatted_doc[1][attr]].items[i]]
                      = heap[heap[formatted_doc[1][attr]].items[i]])
        => Content(heap', document'[1]) = Content(heap, document[1])]_vars

=============================================================================
